---- MODULE Spec2Model ----
(***************************************************************************)
(* A model of plex-directplay-convert: the compatibility classifier       *)
(* (lib/media_analyzer.py), the process supervisor and its signal handler *)
(* (lib/ffmpeg_runner.py), the per-file procedure (lib/processor.py) and  *)
(* the sequential batch loop (main.py), and the worker pool of the         *)
(* parallel mode with its cache updates (lib/parallel_processor.py,        *)
(* lib/cache_manager.py).                                                  *)
(*                                                                         *)
(* The main thread is a program counter pc walking through                 *)
(* process_files_batch -> process_file -> run.  The signal handler runs    *)
(* on the main thread (Python runs handlers between two bytecodes of the   *)
(* main thread), so while hpc # "none" the main thread does not move.      *)
(* sys.exit(1) at the end of the handler raises SystemExit at the place    *)
(* the main thread was interrupted.  The external tools (ffprobe, ffmpeg)  *)
(* are environment processes.                                              *)
(***************************************************************************)
EXTENDS Integers, Sequences, FiniteSets, TLC

VARIABLES
    pc,          \* position of the main thread
    hpc,         \* position inside signal_handler, "none" when it is not running
    idx,         \* 1-based index of the file the batch loop is at
    opts,        \* the run's options (argparse namespace)
    info,        \* descriptor discover_media returns for the current file
    mode,        \* Action chosen by needs_processing, "none" before
    fs,          \* the current file's paths: src, tmp (out_path), final (final_path)
    samePath,    \* final_path resolves to the same file as src
    interrupted, \* lib.ffmpeg_runner.interrupted
    current,     \* lib.ffmpeg_runner.current_ffmpeg_process is not None
    proc,        \* the subprocess of the current run() call
    stderrBuf,   \* lines the subprocess wrote to stderr that run() has not read
    ret,         \* code run(cmd, show_progress=True) returned to process_file, {} before
    result,      \* result tag of process_file for the current file, "none" before
    cache,       \* processed flag of the current file's cache entry
    hist,        \* what happened to the current file (history, read by the properties)
    auto_yes,    \* auto_yes of process_files_batch, handed through process_file
    counters,    \* the counters of main.py:279-287 process_files_batch updates
    par,         \* the state of ParallelProcessor.process_batch_parallel
    unit         \* one call of a pure function: its arguments, then its result

seqVars == <<pc, hpc, idx, opts, info, mode, fs, samePath, interrupted, current,
             proc, stderrBuf, ret, result, cache, hist, auto_yes, counters>>

vars == <<pc, hpc, idx, opts, info, mode, fs, samePath, interrupted, current,
          proc, stderrBuf, ret, result, cache, hist, auto_yes, counters, par, unit>>

(***************************************************************************)
(* Bounds of the model.                                                    *)
(***************************************************************************)
NFiles == 2
MaxAudio == 2
MaxLines == 1
NParFiles == 3
MaxWorkers == 3
MaxStreams == 3

(***************************************************************************)
(* Program constants.                                                      *)
(***************************************************************************)
InterruptedCode == 130
EncodeLimit == 2

None == "None"
Absent == "absent"

SKIP == "skip"
CONTAINER_REMUX == "container_remux"
REMUX_AUDIO == "remux_audio"
TRANCODE_VIDEO == "transcode_video"
TRANCODE_ALL == "transcode_all"

Action == {SKIP, CONTAINER_REMUX, REMUX_AUDIO, TRANCODE_VIDEO, TRANCODE_ALL}

(***************************************************************************)
(* str.lower() on the codec names the model draws from.                    *)
(***************************************************************************)
Lower(s) ==
    CASE s = "H264" -> "h264"
      [] s = "HEVC" -> "hevc"
      [] s = "AAC"  -> "aac"
      [] OTHER      -> s

(***************************************************************************)
(* Descriptors, as discover_media builds them: audio_codecs and            *)
(* audio_channels come from the same stream list (one sequence here),      *)
(* has_audio is len(a) > 0, a file without a video stream has codec None   *)
(* and is not HDR, the container is the lower-cased suffix.                *)
(***************************************************************************)
Containers == {"mp4", "mkv"}
VideoCodecs == {"h264", "H264", "hevc"}
AudioCodecs == {"aac", "ac3"}
ChannelCounts == {2, 6}

AudioStream == [codec : AudioCodecs, channels : ChannelCounts]

AudioLists == UNION {[1..n -> AudioStream] : n \in 0..MaxAudio}

Descriptor(c, v, h, a) ==
    [container |-> c, has_video |-> v # None, video_codec |-> v,
     is_hdr |-> h, audio |-> a, has_audio |-> Len(a) > 0]

AllDescriptors ==
    {Descriptor(c, v, h, a) : c \in Containers, v \in VideoCodecs,
                              h \in BOOLEAN, a \in AudioLists}
    \cup {Descriptor(c, None, FALSE, a) : c \in Containers, a \in AudioLists}

(***************************************************************************)
(* needs_processing(info, out_ext), lib/media_analyzer.py:76-97.           *)
(***************************************************************************)
container_ok(i) == i.container = "mp4"

video_ok_anyRange(i) ==
    Lower(IF i.video_codec = None THEN "" ELSE i.video_codec) \in {"h264"}

video_ok(i) ==
    /\ Lower(IF i.video_codec = None THEN "" ELSE i.video_codec) \in {"h264"}
    /\ ~i.is_hdr

audio_ok(i) ==
    /\ i.has_audio
    /\ Len(i.audio) > 0
    /\ \A k \in 1..Len(i.audio) : i.audio[k].codec \in {"aac"}
    /\ \A k \in 1..Len(i.audio) : i.audio[k].channels = 2

needs_processing_vcase(i, out_ext) ==
    LET c == i.container = "mp4"
        v == i.video_codec \in {"h264"} /\ ~i.is_hdr
        a == audio_ok(i)
    IN  IF c /\ v /\ a THEN SKIP
        ELSE IF ~c /\ v /\ a THEN CONTAINER_REMUX
        ELSE IF c /\ v /\ ~a THEN REMUX_AUDIO
        ELSE IF c /\ a /\ ~v THEN TRANCODE_VIDEO
        ELSE TRANCODE_ALL

needs_processing(i, out_ext) ==
    IF container_ok(i) /\ video_ok(i) /\ audio_ok(i) THEN SKIP
    ELSE IF ~container_ok(i) /\ video_ok(i) /\ audio_ok(i) THEN CONTAINER_REMUX
    ELSE IF container_ok(i) /\ video_ok(i) /\ ~audio_ok(i) THEN REMUX_AUDIO
    ELSE IF container_ok(i) /\ audio_ok(i) /\ ~video_ok(i) THEN TRANCODE_VIDEO
    ELSE TRANCODE_ALL

(***************************************************************************)
(* The files the batch loop is given.  One descriptor per action and one   *)
(* file without a video stream.                                            *)
(***************************************************************************)
Aac2 == <<[codec |-> "aac", channels |-> 2]>>
Ac36 == <<[codec |-> "ac3", channels |-> 6]>>

SampleDescriptors ==
    {Descriptor("mp4", "h264", FALSE, Aac2),
     Descriptor("mkv", "h264", FALSE, Aac2),
     Descriptor("mp4", "h264", FALSE, Ac36),
     Descriptor("mp4", "hevc", FALSE, Aac2),
     Descriptor("mkv", "hevc", TRUE, Ac36),
     Descriptor("mkv", None, FALSE, Aac2)}

NoInfo == Descriptor("mkv", None, FALSE, <<>>)

(***************************************************************************)
(* Options of a run: argparse namespace of main.py:34-72 as far as         *)
(* process_file reads it.                                                  *)
(***************************************************************************)
OptionSets ==
    [delete_original : BOOLEAN, dry_run : BOOLEAN,
     action_filter : {None, TRANCODE_VIDEO}, use_cache : BOOLEAN,
     interactive : BOOLEAN]

(***************************************************************************)
(* File names, as sequences of their dot-separated parts: 'movie.mkv' is   *)
(* <<"movie", "mkv">>.  Path.stem drops the last part.  process_file lines *)
(* 39-41 build the name the encoder writes to and the final name.          *)
(***************************************************************************)
Stems == {<<"movie">>, <<"show", "s01">>}

OutName(stem) == stem \o <<"mp4", "convert">>

FinalName(stem) == stem \o <<"mp4">>

(***************************************************************************)
(* The current file's paths.  final_path is src itself when samePath.      *)
(***************************************************************************)
FinalContent(f, same) == IF same THEN f.src ELSE f.final

NoProc == [state |-> "none", kind |-> "none", code |-> 0, term |-> FALSE, kill |-> FALSE]

Spawn(kind) == [state |-> "running", kind |-> kind, code |-> 0, term |-> FALSE, kill |-> FALSE]

Alive == proc.state = "running"

NoEntry == [flag |-> FALSE, spawn |-> FALSE, code |-> {}]

NoHist ==
    [entry |-> NoEntry,      \* the latest call of run(): flag at entry, what it did
     sigInFlight |-> FALSE,  \* a signal arrived while the encode subprocess was running
     wrote |-> FALSE,        \* the encode subprocess wrote (part of) out_path
     faults |-> {},          \* the file operations that failed
     runEnd |-> "none",      \* how run(cmd, show_progress=True) ended: returned, raised
     stem |-> <<>>,          \* src.stem
     outName |-> <<>>,       \* name of the out_path handed to build_ffmpeg_cmd
     finalName |-> <<>>,     \* name of final_path
     final0 |-> Absent,      \* what final_path held when process_file was called
     autoYes0 |-> FALSE,     \* auto_yes handed to process_file
     flagAtCall |-> FALSE,   \* the flag was up when process_file was called
     probeFailed |-> FALSE,  \* ffprobe exited nonzero
     choice |-> "none",      \* answer to the confirmation prompt, "none": no prompt
     mkdir |-> FALSE,        \* dst_dir.mkdir was called
     cmdBuilt |-> FALSE,     \* build_ffmpeg_cmd was called for the encode
     cacheCalls |-> <<>>]    \* file_path handed to each call of update_cache_entry

NoCounters == [converted |-> 0, skipped |-> 0, interrupted |-> 0, errors |-> 0]

NoPar == [phase |-> "off"]

NoUnit == [phase |-> "off"]

(***************************************************************************)
(* main.py:27 binds the name interrupted to the value the flag has when    *)
(* main is imported; main.py:192 reads that binding.                       *)
(***************************************************************************)
main_interrupted == FALSE

MainRuns == hpc = "none" /\ pc \notin {"summary", "exited"}

Init ==
    /\ pc = "batch_next"
    /\ hpc = "none"
    /\ idx = 1
    /\ opts \in OptionSets
    /\ info = NoInfo
    /\ mode = "none"
    /\ fs = [src |-> Absent, tmp |-> Absent, final |-> Absent]
    /\ samePath = FALSE
    /\ interrupted = FALSE
    /\ current = FALSE
    /\ proc = NoProc
    /\ stderrBuf = 0
    /\ ret = {}
    /\ result = "none"
    /\ cache = FALSE
    /\ hist = NoHist
    /\ auto_yes = FALSE
    /\ counters = NoCounters
    /\ par = NoPar
    /\ unit = NoUnit

(***************************************************************************)
(* run(), lib/ffmpeg_runner.py:174-176: the check of the flag before       *)
(* anything is launched.                                                   *)
(***************************************************************************)
RunEntryNoCheck(flag) == [flag |-> flag, spawn |-> TRUE, code |-> {}]

RunEntry(flag) ==
    IF flag THEN [flag |-> flag, spawn |-> FALSE, code |-> {InterruptedCode}]
            ELSE [flag |-> flag, spawn |-> TRUE, code |-> {}]

(***************************************************************************)
(* process_files_batch, main.py:190-203: the next file, or the summary.    *)
(***************************************************************************)
BatchNext ==
    /\ MainRuns
    /\ pc = "batch_next"
    /\ IF idx > NFiles \/ main_interrupted
       THEN /\ pc' = "summary"
            /\ UNCHANGED <<info, fs, samePath>>
       ELSE /\ pc' = "pf_probe"
            /\ info' \in SampleDescriptors
            /\ samePath' \in (IF info'.container = "mp4" THEN BOOLEAN ELSE {FALSE})
            /\ \E f \in {Absent, "existing"} :
                 fs' = [src |-> "original", tmp |-> Absent,
                        final |-> IF samePath' THEN Absent ELSE f]
    /\ mode' = "none"
    /\ ret' = {}
    /\ result' = "none"
    /\ cache' = FALSE
    /\ proc' = NoProc
    /\ stderrBuf' = 0
    /\ IF pc' = "pf_probe"
       THEN \E st \in Stems :
              hist' = [NoHist EXCEPT !.entry = hist.entry, !.stem = st,
                                     !.final0 = fs'.final, !.autoYes0 = auto_yes,
                                     !.flagAtCall = interrupted]
       ELSE hist' = [NoHist EXCEPT !.entry = hist.entry]
    /\ UNCHANGED <<hpc, idx, opts, interrupted, current>>
    /\ UNCHANGED <<auto_yes, counters, par, unit>>

(***************************************************************************)
(* process_file line 34: discover_media -> ffprobe_streams -> run_simple   *)
(* -> run(cmd).  A refused call returns 130, which ffprobe_streams turns   *)
(* into a RuntimeError (ffmpeg_runner.py:265-267) that main.py:211 counts. *)
(***************************************************************************)
PfProbe ==
    /\ MainRuns
    /\ pc = "pf_probe"
    /\ LET e == RunEntry(interrupted)
       IN  /\ hist' = [hist EXCEPT !.entry = e]
           /\ IF e.spawn
              THEN /\ proc' = Spawn("probe")
                   /\ pc' = "pf_probe_wait"
                   /\ UNCHANGED result
              ELSE /\ result' = "error"
                   /\ pc' = "batch_result"
                   /\ UNCHANGED proc
    /\ UNCHANGED <<hpc, idx, opts, info, mode, fs, samePath, interrupted, current,
                   stderrBuf, ret, cache>>
    /\ UNCHANGED <<auto_yes, counters, par, unit>>

(***************************************************************************)
(* subprocess.run of ffprobe returns (ffmpeg_runner.py:183-184, 265-269);  *)
(* processor.py:35-37 when the file has no video stream.                   *)
(***************************************************************************)
PfProbeWait ==
    /\ MainRuns
    /\ pc = "pf_probe_wait"
    /\ \E c \in {0, 1} :
         /\ proc' = [proc EXCEPT !.state = "exited", !.code = c]
         /\ hist' = [hist EXCEPT !.probeFailed = (c # 0)]
         /\ IF c # 0
            THEN result' = "error" /\ pc' = "batch_result"
            ELSE IF ~info.has_video
                 THEN result' = "skipped" /\ pc' = "batch_result"
                 ELSE result' = result /\ pc' = "pf_duration"
    /\ UNCHANGED <<hpc, idx, opts, info, mode, fs, samePath, interrupted, current,
                   stderrBuf, ret, cache>>
    /\ UNCHANGED <<auto_yes, counters, par, unit>>

(***************************************************************************)
(* process_file line 44: get_duration -> run_simple -> run(cmd); a refused *)
(* or failed call gives duration None (ffmpeg_runner.py:279-285).          *)
(***************************************************************************)
PfDuration ==
    /\ MainRuns
    /\ pc = "pf_duration"
    /\ LET e == RunEntry(interrupted)
       IN  /\ hist' = [hist EXCEPT !.entry = e]
           /\ IF e.spawn
              THEN proc' = Spawn("probe") /\ pc' = "pf_duration_wait"
              ELSE proc' = proc /\ pc' = "pf_classify"
    /\ UNCHANGED <<hpc, idx, opts, info, mode, fs, samePath, interrupted, current,
                   stderrBuf, ret, result, cache>>
    /\ UNCHANGED <<auto_yes, counters, par, unit>>

PfDurationWait ==
    /\ MainRuns
    /\ pc = "pf_duration_wait"
    /\ \E c \in {0, 1} : proc' = [proc EXCEPT !.state = "exited", !.code = c]
    /\ pc' = "pf_classify"
    /\ UNCHANGED <<hpc, idx, opts, info, mode, fs, samePath, interrupted, current,
                   stderrBuf, ret, result, cache, hist>>
    /\ UNCHANGED <<auto_yes, counters, par, unit>>

(***************************************************************************)
(* process_file lines 39-61: the names, classify, action filter, Skip.     *)
(***************************************************************************)
\* lines 54-61: the filter is looked at before the Skip check
FilterStep_skipFirst(m, action_filter) ==
    IF m = SKIP THEN "skipped"
    ELSE IF action_filter # None /\ m # action_filter THEN "filtered"
    ELSE "go"

FilterStep(m, action_filter) ==
    IF action_filter # None /\ m # action_filter THEN "filtered"
    ELSE IF m = SKIP THEN "skipped"
    ELSE "go"

PfClassify ==
    /\ MainRuns
    /\ pc = "pf_classify"
    /\ mode' = needs_processing(info, "mp4")
    /\ hist' = [hist EXCEPT !.outName = OutName(hist.stem),
                            !.finalName = FinalName(hist.stem)]
    /\ LET r == FilterStep(mode', opts.action_filter)
       IN  IF r = "go"
           THEN result' = result /\ pc' = "pf_confirm"
           ELSE result' = r /\ pc' = "batch_result"
    /\ UNCHANGED <<hpc, idx, opts, info, fs, samePath, interrupted, current,
                   proc, stderrBuf, ret, cache>>
    /\ UNCHANGED <<auto_yes, counters, par, unit>>

(***************************************************************************)
(* process_file lines 63-77: the confirmation prompt (only when            *)
(* interactive and not auto_yes), then the dry run.                        *)
(***************************************************************************)
DryRunStep_ignore(dry_run) == "go"

DryRunStep(dry_run) == IF dry_run THEN "processed" ELSE "go"

Choices == {"yes", "no", "all", "quit"}

PfConfirm ==
    /\ MainRuns
    /\ pc = "pf_confirm"
    /\ \E ch \in (IF opts.interactive /\ ~auto_yes THEN Choices ELSE {"none"}) :
         /\ hist' = [hist EXCEPT !.choice = ch]
         /\ IF ch = "quit"
            THEN auto_yes' = FALSE /\ result' = "quit" /\ pc' = "batch_result"
            ELSE IF ch = "no"
            THEN auto_yes' = auto_yes /\ result' = "skipped" /\ pc' = "batch_result"
            ELSE /\ auto_yes' = (auto_yes \/ ch = "all")
                 /\ IF DryRunStep(opts.dry_run) = "processed"
                    THEN result' = "processed" /\ pc' = "batch_result"
                    ELSE result' = result /\ pc' = "pf_exists"
    /\ UNCHANGED <<hpc, idx, opts, info, mode, fs, samePath, interrupted, current,
                   proc, stderrBuf, ret, cache>>
    /\ UNCHANGED <<counters, par, unit>>

(***************************************************************************)
(* process_file lines 79-93: dst_dir.mkdir (the directory exists in every  *)
(* flow of main.py: it is the source's parent or was made at main.py:275), *)
(* then the destination exists already, else the command is built (never   *)
(* null here: mode is not Skip).                                           *)
(***************************************************************************)
FinalExists_never(f, same) == FALSE

FinalExists(f, same) == FinalContent(f, same) # Absent

PfExists ==
    /\ MainRuns
    /\ pc = "pf_exists"
    /\ IF FinalExists(fs, samePath)
       THEN /\ result' = "skipped"
            /\ pc' = "batch_result"
            /\ hist' = [hist EXCEPT !.mkdir = TRUE]
       ELSE /\ result' = result
            /\ pc' = "run_entry"
            /\ hist' = [hist EXCEPT !.mkdir = TRUE, !.cmdBuilt = TRUE]
    /\ UNCHANGED <<hpc, idx, opts, info, mode, fs, samePath, interrupted, current,
                   proc, stderrBuf, ret, cache>>
    /\ UNCHANGED <<auto_yes, counters, par, unit>>

(***************************************************************************)
(* run(cmd, show_progress=True), lib/ffmpeg_runner.py:170-251.             *)
(***************************************************************************)
\* lines 174-191: the flag check, then Popen
RunStart ==
    /\ MainRuns
    /\ pc = "run_entry"
    /\ LET e == RunEntry(interrupted)
       IN  /\ IF e.spawn
              THEN /\ proc' = Spawn("encode")
                   /\ pc' = "run_track"
                   /\ ret' = ret
                   /\ hist' = [hist EXCEPT !.entry = e]
              ELSE /\ proc' = proc
                   /\ pc' = "pf_ret"
                   /\ ret' = e.code
                   /\ hist' = [hist EXCEPT !.entry = e, !.runEnd = "returned"]
    /\ stderrBuf' = 0
    /\ UNCHANGED <<hpc, idx, opts, info, mode, fs, samePath, interrupted, current,
                   result, cache>>
    /\ UNCHANGED <<auto_yes, counters, par, unit>>

\* line 194: the handle becomes reachable for signal_handler
RunTrack ==
    /\ MainRuns
    /\ pc = "run_track"
    /\ current' = TRUE
    /\ pc' = "run_loop"
    /\ UNCHANGED <<hpc, idx, opts, info, mode, fs, samePath, interrupted,
                   proc, stderrBuf, ret, result, cache, hist>>
    /\ UNCHANGED <<auto_yes, counters, par, unit>>

\* lines 201-221: one iteration of the read loop.  readline blocks until a
\* line is there or the pipe is at end of file (the subprocess has exited).
RunLoop ==
    /\ MainRuns
    /\ pc = "run_loop"
    /\ IF interrupted
       THEN pc' = "run_communicate" /\ stderrBuf' = stderrBuf
       ELSE IF stderrBuf > 0
            THEN pc' = pc /\ stderrBuf' = stderrBuf - 1
            ELSE proc.state = "exited" /\ pc' = "run_communicate" /\ stderrBuf' = 0
    /\ UNCHANGED <<hpc, idx, opts, info, mode, fs, samePath, interrupted, current,
                   proc, ret, result, cache, hist>>
    /\ UNCHANGED <<auto_yes, counters, par, unit>>

\* lines 223-228: communicate() reads the rest and waits for the exit
RunCommunicate ==
    /\ MainRuns
    /\ pc = "run_communicate"
    /\ proc.state = "exited"
    /\ stderrBuf' = 0
    /\ pc' = "run_finally"
    /\ UNCHANGED <<hpc, idx, opts, info, mode, fs, samePath, interrupted, current,
                   proc, ret, result, cache, hist>>
    /\ UNCHANGED <<auto_yes, counters, par, unit>>

\* lines 235-251: the handle is cleared, the code is chosen
RunCode(flag, code) == IF flag THEN {InterruptedCode} ELSE {code}

RunFinally ==
    /\ MainRuns
    /\ pc = "run_finally"
    /\ current' = FALSE
    /\ ret' = RunCode(interrupted, proc.code)
    /\ hist' = [hist EXCEPT !.runEnd = "returned"]
    /\ pc' = "pf_ret"
    /\ UNCHANGED <<hpc, idx, opts, info, mode, fs, samePath, interrupted,
                   proc, stderrBuf, result, cache>>
    /\ UNCHANGED <<auto_yes, counters, par, unit>>

(***************************************************************************)
(* process_file lines 98-119: the outcome of run(), and the removal of the *)
(* partial out_path.  unlink() can fail; the code prints a warning then.   *)
(***************************************************************************)
RemovePartial_keep(f) == {[fs |-> f, fault |-> {}]}

RemovePartial(f) ==
    IF f.tmp # Absent
    THEN {[fs |-> [f EXCEPT !.tmp = Absent], fault |-> {}],
          [fs |-> f, fault |-> {"cleanup_unlink"}]}
    ELSE {[fs |-> f, fault |-> {}]}

RetTag(r) ==
    IF r = {130} THEN "interrupted"
    ELSE IF r # {0} THEN "error"
    ELSE "completed"

PfRet ==
    /\ MainRuns
    /\ pc = "pf_ret"
    /\ IF RetTag(ret) = "completed"
       THEN /\ pc' = "fin_unlink_src"
            /\ UNCHANGED <<fs, result, hist>>
       ELSE /\ \E o \in RemovePartial(fs) :
                 /\ fs' = o.fs
                 /\ hist' = [hist EXCEPT !.faults = @ \cup o.fault]
            /\ result' = RetTag(ret)
            /\ pc' = "batch_result"
    /\ UNCHANGED <<hpc, idx, opts, info, mode, samePath, interrupted, current,
                   proc, stderrBuf, ret, cache>>
    /\ UNCHANGED <<auto_yes, counters, par, unit>>

(***************************************************************************)
(* process_file lines 123-141: the original is removed, out_path is        *)
(* renamed to final_path; on an exception out_path is removed when the     *)
(* original is gone.                                                       *)
(***************************************************************************)
\* line 126: src.unlink(), whatever delete_original says
UnlinkOriginal(f, delete_original) ==
    IF f.src # Absent
    THEN {[fs |-> [f EXCEPT !.src = Absent], ok |-> TRUE], [fs |-> f, ok |-> FALSE]}
    ELSE {[fs |-> f, ok |-> FALSE]}

FinUnlinkSrc ==
    /\ MainRuns
    /\ pc = "fin_unlink_src"
    /\ \E o \in UnlinkOriginal(fs, opts.delete_original) :
         /\ fs' = o.fs
         /\ IF o.ok
            THEN pc' = "fin_rename" /\ hist' = hist
            ELSE pc' = "fin_except" /\ hist' = [hist EXCEPT !.faults = @ \cup {"src_unlink"}]
    /\ UNCHANGED <<hpc, idx, opts, info, mode, samePath, interrupted, current,
                   proc, stderrBuf, ret, result, cache>>
    /\ UNCHANGED <<auto_yes, counters, par, unit>>

\* line 130: out_path.rename(final_path)
RenameTemp_copy(f, same) ==
    IF f.tmp # Absent
    THEN {[fs |-> IF same THEN [f EXCEPT !.src = f.tmp] ELSE [f EXCEPT !.final = f.tmp],
           ok |-> TRUE],
          [fs |-> f, ok |-> FALSE]}
    ELSE {[fs |-> f, ok |-> FALSE]}

RenameTemp(f, same) ==
    IF f.tmp # Absent
    THEN {[fs |-> IF same THEN [f EXCEPT !.src = f.tmp, !.tmp = Absent]
                          ELSE [f EXCEPT !.final = f.tmp, !.tmp = Absent],
           ok |-> TRUE],
          [fs |-> f, ok |-> FALSE]}
    ELSE {[fs |-> f, ok |-> FALSE]}

FinRename ==
    /\ MainRuns
    /\ pc = "fin_rename"
    /\ \E o \in RenameTemp(fs, samePath) :
         /\ fs' = o.fs
         /\ IF o.ok
            THEN pc' = "pf_cache" /\ hist' = hist
            ELSE pc' = "fin_except" /\ hist' = [hist EXCEPT !.faults = @ \cup {"rename"}]
    /\ UNCHANGED <<hpc, idx, opts, info, mode, samePath, interrupted, current,
                   proc, stderrBuf, ret, result, cache>>
    /\ UNCHANGED <<auto_yes, counters, par, unit>>

\* lines 132-135, 141
FinExcept ==
    /\ MainRuns
    /\ pc = "fin_except"
    /\ IF fs.src = Absent /\ fs.tmp # Absent
       THEN pc' = "fin_cleanup" /\ result' = result
       ELSE pc' = "batch_result" /\ result' = "error"
    /\ UNCHANGED <<hpc, idx, opts, info, mode, fs, samePath, interrupted, current,
                   proc, stderrBuf, ret, cache, hist>>
    /\ UNCHANGED <<auto_yes, counters, par, unit>>

\* lines 136-141: out_path.unlink() under a bare except
FinCleanup ==
    /\ MainRuns
    /\ pc = "fin_cleanup"
    /\ \/ fs' = [fs EXCEPT !.tmp = Absent] /\ hist' = hist
       \/ fs' = fs /\ hist' = [hist EXCEPT !.faults = @ \cup {"fin_unlink"}]
    /\ result' = "error"
    /\ pc' = "batch_result"
    /\ UNCHANGED <<hpc, idx, opts, info, mode, samePath, interrupted, current,
                   proc, stderrBuf, ret, cache>>
    /\ UNCHANGED <<auto_yes, counters, par, unit>>

\* lines 143-147: update_cache_entry(cache_path, str(src)), return 'processed'.
\* update_cache_entry (cache_manager.py:32-51) reads the whole file, sets the
\* entry and writes the whole file; it catches nothing, so an exception of
\* read_cache_csv (a malformed row, an unreadable file) or of
\* write_analysis_csv (an unwritable file) leaves process_file, which has no
\* handler around the call either, and reaches 'except Exception' of
\* main.py:211-213: the file is counted as an error and auto_yes keeps the
\* value it had before the call.
PfCache_always ==
    /\ MainRuns
    /\ pc = "pf_cache"
    /\ \/ /\ cache' = TRUE
          /\ result' = "processed"
          /\ hist' = [hist EXCEPT !.cacheCalls = Append(@, hist.stem)]
          /\ auto_yes' = auto_yes
       \/ /\ cache' = cache
          /\ result' = "error"
          /\ hist' = [hist EXCEPT !.faults = @ \cup {"cache_update"},
                                  !.cacheCalls = Append(@, hist.stem)]
          /\ auto_yes' = hist.autoYes0
    /\ pc' = "batch_result"
    /\ UNCHANGED <<hpc, idx, opts, info, mode, fs, samePath, interrupted, current,
                   proc, stderrBuf, ret>>
    /\ UNCHANGED <<counters, par, unit>>

PfCache ==
    /\ MainRuns
    /\ pc = "pf_cache"
    /\ IF opts.use_cache
       THEN \/ /\ cache' = TRUE
               /\ result' = "processed"
               /\ hist' = [hist EXCEPT !.cacheCalls = Append(@, hist.stem)]
               /\ auto_yes' = auto_yes
            \/ /\ cache' = cache
               /\ result' = "error"
               /\ hist' = [hist EXCEPT !.faults = @ \cup {"cache_update"},
                                       !.cacheCalls = Append(@, hist.stem)]
               /\ auto_yes' = hist.autoYes0
       ELSE /\ cache' = cache
            /\ result' = "processed"
            /\ UNCHANGED <<hist, auto_yes>>
    /\ pc' = "batch_result"
    /\ UNCHANGED <<hpc, idx, opts, info, mode, fs, samePath, interrupted, current,
                   proc, stderrBuf, ret>>
    /\ UNCHANGED <<counters, par, unit>>

(***************************************************************************)
(* process_files_batch, main.py:204-213 with update_processing_counters    *)
(* (main.py:117-132): 'interrupted' and 'quit' end the loop.               *)
(***************************************************************************)
update_processing_counters_stop(res, c) ==
    IF res \in {"converted", "processed"}
    THEN [counters |-> [c EXCEPT !.converted = @ + 1], brk |-> FALSE]
    ELSE IF res \in {"skipped", "planned", "filtered"}
    THEN [counters |-> [c EXCEPT !.skipped = @ + 1], brk |-> FALSE]
    ELSE IF res = "interrupted"
    THEN [counters |-> [c EXCEPT !.interrupted = @ + 1], brk |-> TRUE]
    ELSE [counters |-> [c EXCEPT !.errors = @ + 1], brk |-> TRUE]

update_processing_counters(res, c) ==
    IF res \in {"converted", "processed"}
    THEN [counters |-> [c EXCEPT !.converted = @ + 1], brk |-> FALSE]
    ELSE IF res \in {"skipped", "planned", "filtered"}
    THEN [counters |-> [c EXCEPT !.skipped = @ + 1], brk |-> FALSE]
    ELSE IF res = "interrupted"
    THEN [counters |-> [c EXCEPT !.interrupted = @ + 1], brk |-> TRUE]
    ELSE IF res = "quit"
    THEN [counters |-> c, brk |-> TRUE]
    ELSE [counters |-> [c EXCEPT !.errors = @ + 1], brk |-> FALSE]

BatchResult ==
    /\ MainRuns
    /\ pc = "batch_result"
    /\ LET u == update_processing_counters(result, counters)
       IN  /\ counters' = u.counters
           /\ IF u.brk
              THEN pc' = "summary" /\ idx' = idx
              ELSE pc' = "batch_next" /\ idx' = idx + 1
    /\ UNCHANGED <<hpc, opts, info, mode, fs, samePath, interrupted, current,
                   proc, stderrBuf, ret, result, cache, hist>>
    /\ UNCHANGED <<auto_yes, par, unit>>

(***************************************************************************)
(* The encode subprocess (ffmpeg), the environment of run(): it writes     *)
(* progress lines to stderr, creates and fills out_path, and exits.  An    *)
(* exit with 0 leaves the complete output in out_path.  A subprocess that  *)
(* was sent SIGTERM may exit by it (Popen.returncode -15) or ignore it.    *)
(***************************************************************************)
EncEmit ==
    /\ proc.kind = "encode"
    /\ Alive
    /\ stderrBuf < MaxLines
    /\ stderrBuf' = stderrBuf + 1
    /\ UNCHANGED <<pc, hpc, idx, opts, info, mode, fs, samePath, interrupted, current,
                   proc, ret, result, cache, hist>>
    /\ UNCHANGED <<auto_yes, counters, par, unit>>

EncWrite ==
    /\ proc.kind = "encode"
    /\ Alive
    /\ fs.tmp = Absent
    /\ fs' = [fs EXCEPT !.tmp = "partial"]
    /\ hist' = [hist EXCEPT !.wrote = TRUE]
    /\ UNCHANGED <<pc, hpc, idx, opts, info, mode, samePath, interrupted, current,
                   proc, stderrBuf, ret, result, cache>>
    /\ UNCHANGED <<auto_yes, counters, par, unit>>

EncExit ==
    /\ proc.kind = "encode"
    /\ Alive
    /\ \E c \in {0, 1, 130} \cup (IF proc.term THEN {-15} ELSE {}) :
         /\ proc' = [proc EXCEPT !.state = "exited", !.code = c]
         /\ IF c = 0
            THEN fs' = [fs EXCEPT !.tmp = "converted"] /\ hist' = [hist EXCEPT !.wrote = TRUE]
            ELSE fs' = fs /\ hist' = hist
    /\ UNCHANGED <<pc, hpc, idx, opts, info, mode, samePath, interrupted, current,
                   stderrBuf, ret, result, cache>>
    /\ UNCHANGED <<auto_yes, counters, par, unit>>

(***************************************************************************)
(* signal_handler, lib/ffmpeg_runner.py:136-163, installed for SIGINT and  *)
(* SIGTERM by main.py:226.                                                 *)
(***************************************************************************)
\* lines 141-143: the flag is set, the handle is looked at
Signal ==
    /\ MainRuns
    /\ interrupted' = TRUE
    /\ hpc' = IF current /\ Alive THEN "h_terminate" ELSE "h_exit"
    /\ hist' = [hist EXCEPT !.sigInFlight = @ \/ (proc.kind = "encode" /\ Alive)]
    /\ UNCHANGED <<pc, idx, opts, info, mode, fs, samePath, current,
                   proc, stderrBuf, ret, result, cache>>
    /\ UNCHANGED <<auto_yes, counters, par, unit>>

\* line 147: terminate()
HTerminate ==
    /\ hpc = "h_terminate"
    /\ proc' = [proc EXCEPT !.term = TRUE]
    /\ hpc' = "h_wait"
    /\ UNCHANGED <<pc, idx, opts, info, mode, fs, samePath, interrupted, current,
                   stderrBuf, ret, result, cache, hist>>
    /\ UNCHANGED <<auto_yes, counters, par, unit>>

\* lines 150-155: wait(timeout=5) returns, or raises TimeoutExpired while the
\* subprocess is still running
HWait ==
    /\ hpc = "h_wait"
    /\ hpc' = IF Alive THEN "h_kill" ELSE "h_exit"
    /\ UNCHANGED <<pc, idx, opts, info, mode, fs, samePath, interrupted, current,
                   proc, stderrBuf, ret, result, cache, hist>>
    /\ UNCHANGED <<auto_yes, counters, par, unit>>

\* lines 156-157: kill() and wait()
HKill ==
    /\ hpc = "h_kill"
    /\ proc' = IF Alive THEN [proc EXCEPT !.state = "exited", !.code = -9, !.kill = TRUE]
                        ELSE [proc EXCEPT !.kill = TRUE]
    /\ hpc' = "h_exit"
    /\ UNCHANGED <<pc, idx, opts, info, mode, fs, samePath, interrupted, current,
                   stderrBuf, ret, result, cache, hist>>
    /\ UNCHANGED <<auto_yes, counters, par, unit>>

(***************************************************************************)
(* line 163: sys.exit(1).  SystemExit unwinds the main thread from pc:     *)
(*  - inside subprocess.run (the probes) the child is killed by            *)
(*    subprocess.run's own cleanup;                                        *)
(*  - inside the try of run() (lines 199-237) the finally clears the       *)
(*    handle; no handler of run(), process_file or process_files_batch     *)
(*    catches SystemExit (they catch KeyboardInterrupt and Exception);     *)
(*  - the bare except of processor.py:139 catches it, and process_file     *)
(*    goes on to return 'error';                                           *)
(*  - everywhere else the program ends.                                    *)
(***************************************************************************)
InRunTry == pc \in {"run_loop", "run_communicate", "run_finally"}

InRun == pc \in {"run_track", "run_loop", "run_communicate", "run_finally"}

HExit ==
    /\ hpc = "h_exit"
    /\ hpc' = "none"
    /\ IF pc = "fin_cleanup"
       THEN /\ pc' = "batch_result"
            /\ result' = "error"
            /\ UNCHANGED <<proc, current, hist>>
       ELSE /\ pc' = "exited"
            /\ result' = result
            /\ proc' = IF pc \in {"pf_probe_wait", "pf_duration_wait"}
                       THEN [proc EXCEPT !.state = "exited", !.code = -9, !.kill = TRUE]
                       ELSE proc
            /\ current' = IF InRunTry THEN FALSE ELSE current
            /\ hist' = IF InRun THEN [hist EXCEPT !.runEnd = "raised"] ELSE hist
    /\ UNCHANGED <<idx, opts, info, mode, fs, samePath, interrupted,
                   stderrBuf, ret, cache>>
    /\ UNCHANGED <<auto_yes, counters, par, unit>>

Next ==
    \/ BatchNext
    \/ PfProbe
    \/ PfProbeWait
    \/ PfDuration
    \/ PfDurationWait
    \/ PfClassify
    \/ PfConfirm
    \/ PfExists
    \/ RunStart
    \/ RunTrack
    \/ RunLoop
    \/ RunCommunicate
    \/ RunFinally
    \/ PfRet
    \/ FinUnlinkSrc
    \/ FinRename
    \/ FinExcept
    \/ FinCleanup
    \/ PfCache
    \/ BatchResult
    \/ EncEmit
    \/ EncWrite
    \/ EncExit
    \/ Signal
    \/ HTerminate
    \/ HWait
    \/ HKill
    \/ HExit

Spec == Init /\ [][Next]_vars

(***************************************************************************)
(* The classifier alone, on every descriptor within the bounds.            *)
(***************************************************************************)
InitClassify ==
    /\ pc = "classify"
    /\ hpc = "none"
    /\ idx = 1
    /\ opts = [delete_original |-> FALSE, dry_run |-> FALSE,
               action_filter |-> None, use_cache |-> FALSE, interactive |-> FALSE]
    /\ info \in AllDescriptors
    /\ mode = "none"
    /\ fs = [src |-> "original", tmp |-> Absent, final |-> Absent]
    /\ samePath = FALSE
    /\ interrupted = FALSE
    /\ current = FALSE
    /\ proc = NoProc
    /\ stderrBuf = 0
    /\ ret = {}
    /\ result = "none"
    /\ cache = FALSE
    /\ hist = NoHist
    /\ auto_yes = FALSE
    /\ counters = NoCounters
    /\ par = NoPar
    /\ unit = NoUnit

Classify ==
    /\ pc = "classify"
    /\ mode' = needs_processing(info, "mp4")
    /\ pc' = "classified"
    /\ UNCHANGED <<hpc, idx, opts, info, fs, samePath, interrupted, current,
                   proc, stderrBuf, ret, result, cache, hist>>
    /\ UNCHANGED <<auto_yes, counters, par, unit>>

NextClassify == Classify

SpecClassify == InitClassify /\ [][NextClassify]_vars

(***************************************************************************)
(* ParallelProcessor.process_batch_parallel, lib/parallel_processor.py     *)
(* lines 140-207.  A ProcessPoolExecutor of processing_workers worker      *)
(* processes takes the submitted files one at a time; each worker runs     *)
(* process_file with the shared cache_path.  Of process_file the worker    *)
(* model keeps what the pool is about: the encode subprocess being alive,  *)
(* and update_cache_entry (cache_manager.py:32-51), which reads the whole  *)
(* cache file, sets one entry in its own copy and writes the whole file    *)
(* back, with no lock around the three steps.                              *)
(***************************************************************************)
Min(a, b) == IF a < b THEN a ELSE b

\* lines 24, 70: the analysis pool has max_workers workers
AnalysisWorkers(max_workers) == max_workers

\* line 154
ProcessingWorkers_all(max_workers) == max_workers

ProcessingWorkers(max_workers) == Min(max_workers, EncodeLimit)

ParFiles == 1..NParFiles

Workers == 1..MaxWorkers

IdleWorker == [pc |-> "idle", file |-> 0, local |-> [f \in ParFiles |-> FALSE]]

InitParallel ==
    /\ pc = "parallel"
    /\ hpc = "none"
    /\ idx = 1
    /\ opts = [delete_original |-> FALSE, dry_run |-> FALSE,
               action_filter |-> None, use_cache |-> TRUE, interactive |-> FALSE]
    /\ info = NoInfo
    /\ mode = "none"
    /\ fs = [src |-> Absent, tmp |-> Absent, final |-> Absent]
    /\ samePath = FALSE
    /\ interrupted = FALSE
    /\ current = FALSE
    /\ proc = NoProc
    /\ stderrBuf = 0
    /\ ret = {}
    /\ result = "none"
    /\ cache = FALSE
    /\ hist = NoHist
    /\ auto_yes = FALSE
    /\ counters = NoCounters
    /\ unit = NoUnit
    /\ \E m \in Workers :
         par = [phase |-> "run",
                max_workers |-> m,
                analysis_workers |-> AnalysisWorkers(m),
                processing_workers |-> ProcessingWorkers(m),
                pending |-> ParFiles,
                w |-> [k \in Workers |-> IdleWorker],
                cacheFile |-> [f \in ParFiles |-> FALSE],
                res |-> [f \in ParFiles |-> "none"]]

Encoding == {k \in Workers : par.w[k].pc = "encoding"}

\* a worker process of the pool takes the next submitted file and runs
\* process_file up to the point where the encode is launched, or returns
\* 'skipped' for a file that needs no work
WTake(k) ==
    /\ par.phase = "run"
    /\ k <= par.processing_workers
    /\ par.w[k].pc = "idle"
    /\ \E f \in par.pending :
         \/ par' = [par EXCEPT !.pending = @ \ {f},
                               !.w[k] = [@ EXCEPT !.pc = "encoding", !.file = f]]
         \/ par' = [par EXCEPT !.pending = @ \ {f}, !.res[f] = "skipped"]
    /\ UNCHANGED <<seqVars, unit>>

\* the encode subprocess of the worker exits: process_file goes on to the
\* rename and the cache update, or returns 'error'
WEncodeEnd(k) ==
    /\ par.phase = "run"
    /\ par.w[k].pc = "encoding"
    /\ \/ par' = [par EXCEPT !.w[k].pc = "cache_read"]
       \/ par' = [par EXCEPT !.w[k] = IdleWorker, !.res[par.w[k].file] = "error"]
    /\ UNCHANGED <<seqVars, unit>>

\* cache_manager.py:38: read_cache_csv, all entries
WCacheRead(k) ==
    /\ par.phase = "run"
    /\ par.w[k].pc = "cache_read"
    /\ par' = [par EXCEPT !.w[k].local = par.cacheFile, !.w[k].pc = "cache_write"]
    /\ UNCHANGED <<seqVars, unit>>

\* cache_manager.py:42-51: the entry is set in the copy, the copy is written;
\* process_file returns 'processed'
WCacheWrite(k) ==
    /\ par.phase = "run"
    /\ par.w[k].pc = "cache_write"
    /\ LET f == par.w[k].file
       IN  par' = [par EXCEPT !.cacheFile = [par.w[k].local EXCEPT ![f] = TRUE],
                             !.res[f] = "processed",
                             !.w[k] = IdleWorker]
    /\ UNCHANGED <<seqVars, unit>>

\* lines 173-185: every future has completed, the executor is shut down
ParFinish ==
    /\ par.phase = "run"
    /\ par.pending = {}
    /\ \A k \in Workers : par.w[k].pc = "idle"
    /\ par' = [par EXCEPT !.phase = "done"]
    /\ UNCHANGED <<seqVars, unit>>

NextParallel ==
    \/ \E k \in Workers : WTake(k)
    \/ \E k \in Workers : WEncodeEnd(k)
    \/ \E k \in Workers : WCacheRead(k)
    \/ \E k \in Workers : WCacheWrite(k)
    \/ ParFinish

SpecParallel == InitParallel /\ [][NextParallel]_vars

(***************************************************************************)
(* Language tags, lib/language_utils.py.  A tag is the sequence of its     *)
(* characters, so that str.lower() is computed character by character;     *)
(* NoneStr stands for Python's None.                                       *)
(***************************************************************************)
NoneStr == <<"None">>

LetterPairs ==
    {<<"A", "a">>, <<"B", "b">>, <<"C", "c">>, <<"D", "d">>, <<"E",
     "e">>, <<"F", "f">>, <<"G", "g">>, <<"H", "h">>, <<"I", "i">>,
     <<"J", "j">>, <<"K", "k">>, <<"L", "l">>, <<"M", "m">>, <<"N",
     "n">>, <<"O", "o">>, <<"P", "p">>, <<"Q", "q">>, <<"R", "r">>,
     <<"S", "s">>, <<"T", "t">>, <<"U", "u">>, <<"V", "v">>, <<"W",
     "w">>, <<"X", "x">>, <<"Y", "y">>, <<"Z", "z">>}

LowerChar(c) ==
    IF \E p \in LetterPairs : p[1] = c
    THEN (CHOOSE p \in LetterPairs : p[1] = c)[2]
    ELSE c

UpperChar(c) ==
    IF \E p \in LetterPairs : p[2] = c
    THEN (CHOOSE p \in LetterPairs : p[2] = c)[1]
    ELSE c

lower(s) == [i \in 1..Len(s) |-> LowerChar(s[i])]

upper(s) == [i \in 1..Len(s) |-> UpperChar(s[i])]

capitalize(s) == [i \in 1..Len(s) |-> IF i = 1 THEN UpperChar(s[i]) ELSE LowerChar(s[i])]

L_empty == <<>>
L_de == <<"d", "e">>
L_deu == <<"d", "e", "u">>
L_deutsch == <<"d", "e", "u", "t", "s", "c", "h">>
L_en == <<"e", "n">>
L_eng == <<"e", "n", "g">>
L_english == <<"e", "n", "g", "l", "i", "s", "h">>
L_es == <<"e", "s">>
L_esp == <<"e", "s", "p">>
L_fr == <<"f", "r">>
L_fra == <<"f", "r", "a">>
L_fre == <<"f", "r", "e">>
L_french == <<"f", "r", "e", "n", "c", "h">>
L_ger == <<"g", "e", "r">>
L_german == <<"g", "e", "r", "m", "a", "n">>
L_it == <<"i", "t">>
L_ita == <<"i", "t", "a">>
L_italian == <<"i", "t", "a", "l", "i", "a", "n">>
L_ja == <<"j", "a">>
L_japanese == <<"j", "a", "p", "a", "n", "e", "s", "e">>
L_jp == <<"j", "p">>
L_jpn == <<"j", "p", "n">>
L_spa == <<"s", "p", "a">>
L_spanish == <<"s", "p", "a", "n", "i", "s", "h">>
L_und == <<"u", "n", "d">>
L_unknown == <<"u", "n", "k", "n", "o", "w", "n">>

\* LANGUAGE_MAP, lines 8-23, as the set of its (key, value) pairs
LANGUAGE_MAP_chain ==
    {<<L_de, L_de>>, <<L_deu, L_de>>, <<L_ger, L_de>>, <<L_german,
     L_deu>>, <<L_deutsch, L_de>>, <<L_en, L_en>>, <<L_eng, L_en>>,
     <<L_english, L_en>>, <<L_jp, L_jp>>, <<L_ja, L_jp>>, <<L_jpn,
     L_jp>>, <<L_japanese, L_jp>>, <<L_fr, L_fr>>, <<L_fra, L_fr>>,
     <<L_fre, L_fr>>, <<L_french, L_fr>>, <<L_es, L_es>>, <<L_esp,
     L_es>>, <<L_spa, L_es>>, <<L_spanish, L_es>>, <<L_it, L_it>>,
     <<L_ita, L_it>>, <<L_italian, L_it>>, <<L_unknown, L_unknown>>,
     <<L_und, L_unknown>>, <<L_empty, L_unknown>>}

LANGUAGE_MAP ==
    {<<L_de, L_de>>, <<L_deu, L_de>>, <<L_ger, L_de>>, <<L_german,
     L_de>>, <<L_deutsch, L_de>>, <<L_en, L_en>>, <<L_eng, L_en>>,
     <<L_english, L_en>>, <<L_jp, L_jp>>, <<L_ja, L_jp>>, <<L_jpn,
     L_jp>>, <<L_japanese, L_jp>>, <<L_fr, L_fr>>, <<L_fra, L_fr>>,
     <<L_fre, L_fr>>, <<L_french, L_fr>>, <<L_es, L_es>>, <<L_esp,
     L_es>>, <<L_spa, L_es>>, <<L_spanish, L_es>>, <<L_it, L_it>>,
     <<L_ita, L_it>>, <<L_italian, L_it>>, <<L_unknown, L_unknown>>,
     <<L_und, L_unknown>>, <<L_empty, L_unknown>>}

\* dict.get(key, default)
MapGet(key, default) ==
    IF \E p \in LANGUAGE_MAP : p[1] = key
    THEN (CHOOSE p \in LANGUAGE_MAP : p[1] = key)[2]
    ELSE default

\* normalize_language, lines 32-36
normalize_language_strict(lang_code) ==
    IF lang_code = NoneStr \/ lang_code = <<>>
    THEN L_unknown
    ELSE MapGet(lang_code, lower(lang_code))

normalize_language(lang_code) ==
    IF lang_code = NoneStr \/ lang_code = <<>>
    THEN L_unknown
    ELSE MapGet(lower(lang_code), lower(lang_code))

(***************************************************************************)
(* normalize_language alone: every key of the map in lower case, upper     *)
(* case and capitalized, tags the map does not know, the empty string and  *)
(* None.                                                                   *)
(***************************************************************************)
MapKeys == {p[1] : p \in LANGUAGE_MAP}

UnmappedTags == {<<"x", "x">>, <<"X", "X">>, <<"t", "l", "h">>, <<"N", "l", "d">>,
                 <<"z", "h", "-", "C", "N">>, <<" ">>}

LangInputs ==
    MapKeys \cup {upper(k) : k \in MapKeys} \cup {capitalize(k) : k \in MapKeys}
        \cup UnmappedTags \cup {NoneStr}

InitNormalize ==
    /\ pc = "unit"
    /\ hpc = "none"
    /\ idx = 1
    /\ opts = [delete_original |-> FALSE, dry_run |-> FALSE,
               action_filter |-> None, use_cache |-> FALSE, interactive |-> FALSE]
    /\ info = NoInfo
    /\ mode = "none"
    /\ fs = [src |-> Absent, tmp |-> Absent, final |-> Absent]
    /\ samePath = FALSE
    /\ interrupted = FALSE
    /\ current = FALSE
    /\ proc = NoProc
    /\ stderrBuf = 0
    /\ ret = {}
    /\ result = "none"
    /\ cache = FALSE
    /\ hist = NoHist
    /\ auto_yes = FALSE
    /\ counters = NoCounters
    /\ par = NoPar
    /\ \E x \in LangInputs : unit = [phase |-> "normalize", lang_code |-> x]

Normalize ==
    /\ unit.phase = "normalize"
    /\ unit' = [phase |-> "normalized",
                lang_code |-> unit.lang_code,
                once |-> normalize_language(unit.lang_code),
                twice |-> normalize_language(normalize_language(unit.lang_code))]
    /\ UNCHANGED <<seqVars, par>>

NextNormalize == Normalize

SpecNormalize == InitNormalize /\ [][NextNormalize]_vars

(***************************************************************************)
(* filter_and_sort_streams, lib/language_utils.py:38-69.  A stream is      *)
(* given by the raw language tag of its tags (the empty string when the    *)
(* tag is missing, line 52); the streams of a file are a sequence of       *)
(* those.  An item of the result is (original index, stream, language);    *)
(* the stream is identified by its index, which counts from 0.             *)
(***************************************************************************)
Range(seq) == {seq[i] : i \in 1..Len(seq)}

\* lines 44-45
KeepLangs_listed(keep_languages) == Range(keep_languages)

KeepLangs(keep_languages) == Range(keep_languages) \cup {L_unknown}

\* enumerate(streams) with the normalized language of each stream
Items(streams) ==
    [i \in 1..Len(streams) |-> [idx |-> i - 1, lang |-> normalize_language(streams[i])]]

KeptItem(it, keep_languages) == it.lang \in KeepLangs(keep_languages)

\* lines 48-57
RECURSIVE FilterItems(_, _)
FilterItems(items, keep_languages) ==
    IF items = <<>> THEN <<>>
    ELSE IF KeptItem(Head(items), keep_languages)
         THEN <<Head(items)>> \o FilterItems(Tail(items), keep_languages)
         ELSE FilterItems(Tail(items), keep_languages)

\* list.index(lang), counted from 0
ListIndex(list, x) ==
    (CHOOSE i \in 1..Len(list) : list[i] = x /\ \A j \in 1..(i - 1) : list[j] # x) - 1

\* sort_key, lines 61-66
SortKey_front(lang, sort_languages) ==
    IF lang \in Range(sort_languages) THEN ListIndex(sort_languages, lang) ELSE -1

SortKey(lang, sort_languages) ==
    IF lang \in Range(sort_languages)
    THEN ListIndex(sort_languages, lang)
    ELSE Len(sort_languages)

\* list.sort(key=sort_key), line 67: a stable sort, here by insertion of the
\* items in their order, each behind the items whose key is not greater
RECURSIVE InsertByKey(_, _, _)
InsertByKey(sorted, it, sort_languages) ==
    IF sorted = <<>> THEN <<it>>
    ELSE IF SortKey(Head(sorted).lang, sort_languages) <= SortKey(it.lang, sort_languages)
         THEN <<Head(sorted)>> \o InsertByKey(Tail(sorted), it, sort_languages)
         ELSE <<it>> \o sorted

RECURSIVE StableSort(_, _)
StableSort(items, sort_languages) ==
    IF items = <<>> THEN <<>>
    ELSE InsertByKey(StableSort(SubSeq(items, 1, Len(items) - 1), sort_languages),
                     items[Len(items)], sort_languages)

filter_and_sort_streams(streams, keep_languages, sort_languages) ==
    IF streams = <<>> THEN <<>>
    ELSE LET filtered_streams ==
                 IF keep_languages # <<>>
                 THEN FilterItems(Items(streams), keep_languages)
                 ELSE Items(streams)
         IN  IF sort_languages # <<>>
             THEN StableSort(filtered_streams, sort_languages)
             ELSE filtered_streams

(***************************************************************************)
(* The selector alone.  Raw tags as ffprobe reports them; the keep and     *)
(* sort lists as parse_language_arguments (main.py:74-84) normalizes them. *)
(***************************************************************************)
RawTags == {L_ger, upper(L_en), L_jpn, L_empty}

StreamLists == UNION {[1..n -> RawTags] : n \in 0..MaxStreams}

KeepLists == {<<>>, <<L_de>>, <<L_de, L_en>>, <<L_fr>>}

SortLists == {<<>>, <<L_jp, L_en, L_de>>, <<L_en>>, <<L_de, L_unknown>>}

InitSelect ==
    /\ pc = "unit"
    /\ hpc = "none"
    /\ idx = 1
    /\ opts = [delete_original |-> FALSE, dry_run |-> FALSE,
               action_filter |-> None, use_cache |-> FALSE, interactive |-> FALSE]
    /\ info = NoInfo
    /\ mode = "none"
    /\ fs = [src |-> Absent, tmp |-> Absent, final |-> Absent]
    /\ samePath = FALSE
    /\ interrupted = FALSE
    /\ current = FALSE
    /\ proc = NoProc
    /\ stderrBuf = 0
    /\ ret = {}
    /\ result = "none"
    /\ cache = FALSE
    /\ hist = NoHist
    /\ auto_yes = FALSE
    /\ counters = NoCounters
    /\ par = NoPar
    /\ \E st \in StreamLists, k \in KeepLists, so \in SortLists :
         unit = [phase |-> "select", streams |-> st,
                 keep_languages |-> k, sort_languages |-> so]

Select ==
    /\ unit.phase = "select"
    /\ unit' = [phase |-> "selected",
                streams |-> unit.streams,
                keep_languages |-> unit.keep_languages,
                sort_languages |-> unit.sort_languages,
                sel |-> filter_and_sort_streams(unit.streams, unit.keep_languages,
                                                unit.sort_languages)]
    /\ UNCHANGED <<seqVars, par>>

NextSelect == Select

SpecSelect == InitSelect /\ [][NextSelect]_vars

(***************************************************************************)
(* get_gpu_encoder_params, lib/gpu_utils.py:61-103, and the capabilities   *)
(* detect_gpu_acceleration (lines 8-59) can return.  A command is the      *)
(* sequence of its arguments; numbers are formatted with str().            *)
(***************************************************************************)
Max(a, b) == IF a > b THEN a ELSE b

NoGpuInfo == [given |-> FALSE, available |-> FALSE, platform |-> "None", encoder |-> "None"]

DetectedGpu ==
    {[given |-> TRUE, available |-> FALSE, platform |-> "None", encoder |-> "None"],
     [given |-> TRUE, available |-> TRUE, platform |-> "metal", encoder |-> "h264_videotoolbox"],
     [given |-> TRUE, available |-> TRUE, platform |-> "nvidia", encoder |-> "h264_nvenc"],
     [given |-> TRUE, available |-> TRUE, platform |-> "intel", encoder |-> "h264_qsv"]}

GpuInfos == {NoGpuInfo} \cup DetectedGpu

nvenc_presets(preset) ==
    CASE preset = "ultrafast" -> "p1"
      [] preset = "superfast" -> "p2"
      [] preset = "veryfast" -> "p3"
      [] preset = "faster" -> "p4"
      [] preset = "fast" -> "p5"
      [] preset = "medium" -> "p6"
      [] preset \in {"slow", "slower", "veryslow"} -> "p7"
      [] OTHER -> "p6"

get_gpu_encoder_params_noClamp(gpu_info, crf, preset) ==
    IF ~gpu_info.available THEN <<>>
    ELSE IF gpu_info.platform = "metal"
    THEN <<"-c:v", "h264_videotoolbox", "-q:v", ToString(100 - (crf * 2)), "-realtime", "0">>
    ELSE IF gpu_info.platform = "nvidia"
    THEN <<"-c:v", "h264_nvenc", "-preset", nvenc_presets(preset),
           "-cq", ToString(crf), "-rc", "constqp">>
    ELSE IF gpu_info.platform = "intel"
    THEN <<"-c:v", "h264_qsv", "-preset", preset, "-global_quality", ToString(crf)>>
    ELSE <<>>

get_gpu_encoder_params(gpu_info, crf, preset) ==
    IF ~gpu_info.available THEN <<>>
    ELSE IF gpu_info.platform = "metal"
    THEN <<"-c:v", "h264_videotoolbox",
           "-q:v", ToString(Max(0, Min(100, 100 - (crf * 2)))),
           "-realtime", "0">>
    ELSE IF gpu_info.platform = "nvidia"
    THEN <<"-c:v", "h264_nvenc", "-preset", nvenc_presets(preset),
           "-cq", ToString(crf), "-rc", "constqp">>
    ELSE IF gpu_info.platform = "intel"
    THEN <<"-c:v", "h264_qsv", "-preset", preset, "-global_quality", ToString(crf)>>
    ELSE <<>>

(***************************************************************************)
(* build_ffmpeg_cmd, lib/ffmpeg_builder.py:9-117.  info is the descriptor  *)
(* as far as the builder reads it: whether it was handed over, and the     *)
(* raw language tags of its audio streams.  None is the empty command.     *)
(***************************************************************************)
NoCmd == <<>>

\* line 13
BaseArgs(inp) ==
    <<"ffmpeg", "-y", "-hide_banner", "-loglevel", "warning", "-progress", "pipe:2", "-i", inp>>

\* lines 27-28: one '-map 0:a:<orig_idx>' per selected stream
RECURSIVE AudioMaps(_)
AudioMaps(sel) ==
    IF sel = <<>> THEN <<>>
    ELSE <<"-map", "0:a:" \o ToString(Head(sel).idx)>> \o AudioMaps(Tail(sel))

\* lines 19-32
MapArgs_noFallback(binfo, keep_languages, sort_languages) ==
    <<"-map", "0:v:0">> \o
        (IF binfo.given
         THEN AudioMaps(filter_and_sort_streams(binfo.audio_streams, keep_languages,
                                                sort_languages))
         ELSE <<"-map", "0:a:0?">>)

MapArgs(binfo, keep_languages, sort_languages) ==
    <<"-map", "0:v:0">> \o
        (IF binfo.given
         THEN LET audio_filtered ==
                      filter_and_sort_streams(binfo.audio_streams, keep_languages,
                                              sort_languages)
              IN  IF audio_filtered # <<>>
                  THEN AudioMaps(audio_filtered)
                  ELSE <<"-map", "0:a:0?">>
         ELSE <<"-map", "0:a:0?">>)

\* lines 38, 46, 52, 86
AudioCodecArgs_noDownmix(m) ==
    IF m \in {CONTAINER_REMUX, TRANCODE_VIDEO}
    THEN <<"-c:a", "copy">>
    ELSE <<"-c:a", "aac", "-b:a", "192k">>

AudioCodecArgs(m) ==
    IF m \in {CONTAINER_REMUX, TRANCODE_VIDEO}
    THEN <<"-c:a", "copy">>
    ELSE <<"-c:a", "aac", "-ac", "2", "-b:a", "192k">>

\* lines 54-61, 88-95
VideoEncoderArgs_trustFlag(use_gpu, gpu_info, crf, preset) ==
    IF use_gpu /\ gpu_info.given
    THEN get_gpu_encoder_params(gpu_info, crf, preset)
    ELSE <<"-c:v", "libx264", "-preset", preset, "-crf", ToString(crf)>>

VideoEncoderArgs(use_gpu, gpu_info, crf, preset) ==
    IF use_gpu /\ gpu_info.given /\ gpu_info.available
    THEN get_gpu_encoder_params(gpu_info, crf, preset)
    ELSE <<"-c:v", "libx264", "-preset", preset, "-crf", ToString(crf)>>

\* lines 63-80, 97-114
ColorTags == <<"-color_primaries", "bt709", "-color_trc", "bt709", "-colorspace", "bt709">>

TonemapFilter ==
    "zscale=t=linear:npl=100,format=gbrpf32le,zscale=p=bt709,tonemap=tonemap=hable:desat=0,zscale=t=bt709:m=bt709:r=tv,format=yuv420p"

ToneMapArgs_always(is_hdr, use_gpu, gpu_info) ==
    IF use_gpu /\ gpu_info.given /\ gpu_info.platform = "metal"
    THEN ColorTags
    ELSE <<"-vf", TonemapFilter>> \o ColorTags

ToneMapArgs(is_hdr, use_gpu, gpu_info) ==
    IF is_hdr
    THEN IF use_gpu /\ gpu_info.given /\ gpu_info.platform = "metal"
         THEN ColorTags
         ELSE <<"-vf", TonemapFilter>> \o ColorTags
    ELSE <<>>

\* lines 39-40, 47-48, 82, 116
Finish_plain(cmd, out) == cmd \o <<out>>

Finish(cmd, out) == cmd \o <<"-movflags", "+faststart", out>>

build_ffmpeg_cmd(inp, out, m, crf, preset, is_hdr, binfo, keep_languages, sort_languages, gpu_info, use_gpu) ==
    LET base == BaseArgs(inp)
        map_args == MapArgs(binfo, keep_languages, sort_languages)
    IN  IF m = SKIP THEN NoCmd
        ELSE IF m = CONTAINER_REMUX
        THEN Finish(base \o map_args \o <<"-c:v", "copy">> \o AudioCodecArgs(m), out)
        ELSE IF m = REMUX_AUDIO
        THEN Finish(base \o map_args \o <<"-c:v", "copy">> \o AudioCodecArgs(m), out)
        ELSE IF m = TRANCODE_VIDEO
        THEN Finish(base \o map_args \o AudioCodecArgs(m)
                        \o VideoEncoderArgs(use_gpu, gpu_info, crf, preset)
                        \o ToneMapArgs(is_hdr, use_gpu, gpu_info), out)
        ELSE Finish(base \o map_args \o AudioCodecArgs(m)
                        \o VideoEncoderArgs(use_gpu, gpu_info, crf, preset)
                        \o ToneMapArgs(is_hdr, use_gpu, gpu_info), out)

(***************************************************************************)
(* The builder alone, on every action, HDR flag, GPU capability and        *)
(* request, with and without a descriptor, and the language lists.         *)
(***************************************************************************)
BuildStreamLists == UNION {[1..n -> RawTags] : n \in 0..MaxAudio}

BuildInfos ==
    {[given |-> FALSE, audio_streams |-> <<>>]}
        \cup {[given |-> TRUE, audio_streams |-> st] : st \in BuildStreamLists}

BuildKeepLists == {<<>>, <<L_de>>, <<L_fr>>}

BuildSortLists == {<<>>, <<L_jp, L_en, L_de>>}

Crfs == {22, 51}

Presets == {"medium", "placebo"}

InPath == "movie.mkv"

OutPath == "movie.mp4.convert"

InitBuild ==
    /\ pc = "unit"
    /\ hpc = "none"
    /\ idx = 1
    /\ opts = [delete_original |-> FALSE, dry_run |-> FALSE,
               action_filter |-> None, use_cache |-> FALSE, interactive |-> FALSE]
    /\ info = NoInfo
    /\ mode = "none"
    /\ fs = [src |-> Absent, tmp |-> Absent, final |-> Absent]
    /\ samePath = FALSE
    /\ interrupted = FALSE
    /\ current = FALSE
    /\ proc = NoProc
    /\ stderrBuf = 0
    /\ ret = {}
    /\ result = "none"
    /\ cache = FALSE
    /\ hist = NoHist
    /\ auto_yes = FALSE
    /\ counters = NoCounters
    /\ par = NoPar
    /\ \E m \in Action, h \in BOOLEAN, bi \in BuildInfos, k \in BuildKeepLists,
          so \in BuildSortLists, g \in GpuInfos, ug \in BOOLEAN,
          crf \in Crfs, pr \in Presets :
         unit = [phase |-> "build", mode |-> m, is_hdr |-> h, info |-> bi,
                 keep_languages |-> k, sort_languages |-> so,
                 gpu_info |-> g, use_gpu |-> ug, crf |-> crf, preset |-> pr]

Build ==
    /\ unit.phase = "build"
    /\ unit' = [unit EXCEPT
                  !.phase = "built"] @@
               [cmd |-> build_ffmpeg_cmd(InPath, OutPath, unit.mode, unit.crf, unit.preset,
                                         unit.is_hdr, unit.info, unit.keep_languages,
                                         unit.sort_languages, unit.gpu_info, unit.use_gpu)]
    /\ UNCHANGED <<seqVars, par>>

NextBuild == Build

SpecBuild == InitBuild /\ [][NextBuild]_vars

(***************************************************************************)
(* The cache file, lib/cache_manager.py.  The file is a sequence of rows   *)
(* of text fields; read_cache_csv turns the flag columns into booleans,    *)
(* csv.DictWriter writes str(value) of every field.  A Python value is a   *)
(* record that tells a bool from a str.                                    *)
(***************************************************************************)
PyStr(x) == [t |-> "str", b |-> FALSE, s |-> x]

PyBool(x) == [t |-> "bool", b |-> x, s |-> ""]

\* str(value), as csv.DictWriter formats a field
str(v) == IF v.t = "bool" THEN (IF v.b THEN "True" ELSE "False") ELSE v.s

\* truth value of a Python object: a non-empty string is true
Truthy(v) == IF v.t = "bool" THEN v.b ELSE v.s # ""

\* str.lower() on the flag texts the cache holds
StrLower(x) ==
    CASE x = "True" -> "true"
      [] x = "False" -> "false"
      [] x = "Unknown" -> "unknown"
      [] OTHER -> x

\* cache_manager.py:19-28, one row
read_row(row) ==
    [file_path |-> row.file_path,
     has_video |-> PyBool(StrLower(row.has_video) = "true"),
     direct_play_compatible |-> PyBool(StrLower(row.direct_play_compatible) = "true"),
     action_needed |-> PyStr(row.action_needed),
     processed |-> PyBool(StrLower(row.processed) = "true"),
     processing_date |-> PyStr(row.processing_date)]

\* cache_manager.py:11-30, for a file that exists
read_cache_csv(rows) == [i \in 1..Len(rows) |-> read_row(rows[i])]

\* cache_manager.py:102-105, one row
write_row(entry) ==
    [file_path |-> entry.file_path,
     has_video |-> str(entry.has_video),
     direct_play_compatible |-> str(entry.direct_play_compatible),
     action_needed |-> str(entry.action_needed),
     processed |-> str(entry.processed),
     processing_date |-> str(entry.processing_date)]

\* cache_manager.py:88-105: nothing is written for an empty list
write_analysis_csv(file_data_list, file) ==
    IF file_data_list = <<>>
    THEN file
    ELSE [exists |-> TRUE,
          rows |-> [i \in 1..Len(file_data_list) |-> write_row(file_data_list[i])]]

\* datetime.now().strftime(...), cache_manager.py:45
Now == "2024-01-01 00:00:00"

\* cache_manager.py:41-47: the first entry with that file_path, 0 when none
FirstMatch(file_data_list, file_path) ==
    IF \E i \in 1..Len(file_data_list) : file_data_list[i].file_path = file_path
    THEN CHOOSE i \in 1..Len(file_data_list) :
           /\ file_data_list[i].file_path = file_path
           /\ \A j \in 1..(i - 1) : file_data_list[j].file_path # file_path
    ELSE 0

\* cache_manager.py:32-51 with processed=True, processing_date=None
update_cache_entry(file, file_path) ==
    IF ~file.exists THEN file
    ELSE LET file_data_list == read_cache_csv(file.rows)
             k == FirstMatch(file_data_list, file_path)
         IN  IF k = 0
             THEN file
             ELSE write_analysis_csv(
                      [file_data_list EXCEPT ![k].processed = PyBool(TRUE),
                                             ![k].processing_date = PyStr(Now)],
                      file)

(***************************************************************************)
(* analyze_file_for_csv, lib/media_analyzer.py:107-171, as far as the      *)
(* cache columns of the model go: a row of texts, 'Unknown' in has_video   *)
(* when the analysis failed.                                               *)
(***************************************************************************)
AnalysisOutcomes == {"compatible", "needs_work", "failed"}

analyze_file_for_csv(src, outcome) ==
    [file_path |-> src,
     has_video |-> PyStr(IF outcome = "failed" THEN "Unknown" ELSE "True"),
     direct_play_compatible |-> PyStr(IF outcome = "compatible" THEN "True" ELSE "False"),
     action_needed |->
         PyStr(CASE outcome = "compatible" -> "Already compatible, skip processing"
                 [] outcome = "needs_work" -> "Full transcode (video + audio)"
                 [] OTHER -> "Analysis failed"),
     processed |-> PyStr("False"),
     processing_date |-> PyStr("")]

(***************************************************************************)
(* filter_cache_files, main.py:144-177.  filter_map.get(action_filter, []) *)
(* is one string, so the generator of line 172 runs over its characters:   *)
(* the test is whether action_needed holds any character of the text.      *)
(***************************************************************************)
Chars(s) ==
    CASE s = "Container remux to MP4" ->
           {"C", "o", "n", "t", "a", "i", "e", "r", " ", "m", "u", "x", "M",
           "P", "4"}
      [] s = "Audio remux to stereo AAC" ->
           {"A", "u", "d", "i", "o", " ", "r", "e", "m", "x", "t", "s", "C"}
      [] s = "Video transcode to H.264 SDR" ->
           {"V", "i", "d", "e", "o", " ", "t", "r", "a", "n", "s", "c", "H",
           ".", "2", "6", "4", "S", "D", "R"}
      [] s = "Full transcode" ->
           {"F", "u", "l", " ", "t", "r", "a", "n", "s", "c", "o", "d", "e"}
      [] s = "Already compatible, skip processing" ->
           {"A", "l", "r", "e", "a", "d", "y", " ", "c", "o", "m", "p", "t",
           "i", "b", ",", "s", "k", "n", "g"}
      [] s = "Full transcode (video + audio)" ->
           {"F", "u", "l", " ", "t", "r", "a", "n", "s", "c", "o", "d", "e",
           "(", "v", "i", "+", ")"}
      [] s = "Analysis failed" ->
           {"A", "n", "a", "l", "y", "s", "i", " ", "f", "e", "d"}
      [] OTHER -> {}

filter_map(action_filter) ==
    CASE action_filter = CONTAINER_REMUX -> "Container remux to MP4"
      [] action_filter = REMUX_AUDIO -> "Audio remux to stereo AAC"
      [] action_filter = TRANCODE_VIDEO -> "Video transcode to H.264 SDR"
      [] action_filter = TRANCODE_ALL -> "Full transcode"
      [] OTHER -> ""

\* lines 151-161: the three tests that skip an entry whatever its action
Skipped_ignoreProcessed(entry, action_filter, on_disk) ==
    \/ entry.file_path \notin on_disk
    \/ Truthy(entry.direct_play_compatible) /\ action_filter = None

Skipped(entry, action_filter, on_disk) ==
    \/ entry.file_path \notin on_disk
    \/ Truthy(entry.processed)
    \/ Truthy(entry.direct_play_compatible) /\ action_filter = None

\* lines 164-173
ActionMatches(entry, action_filter) ==
    action_filter # None =>
        Chars(filter_map(action_filter)) \cap Chars(str(entry.action_needed)) # {}

RECURSIVE filter_cache_files(_, _, _)
filter_cache_files(file_data_list, action_filter, on_disk) ==
    IF file_data_list = <<>> THEN <<>>
    ELSE LET entry == Head(file_data_list)
             rest == filter_cache_files(Tail(file_data_list), action_filter, on_disk)
         IN  IF Skipped(entry, action_filter, on_disk) \/ ~ActionMatches(entry, action_filter)
             THEN rest
             ELSE <<entry.file_path>> \o rest

(***************************************************************************)
(* The cache on its own: a cache file as the program writes it (or none),  *)
(* an update for one path as process_file makes it, then the start of a    *)
(* cache-driven run, main.py:254-290: the cache is read, or gathered when  *)
(* the file is missing, and filtered.                                      *)
(***************************************************************************)
MaxRows == 2

CachePaths == {"a.mkv", "b.mkv"}

UpdatePaths == CachePaths \cup {"c.mkv"}

\* a row as gather_files_to_cache writes it
CacheRows ==
    {write_row(analyze_file_for_csv(p, o)) : p \in CachePaths, o \in AnalysisOutcomes}

\* gather_files_to_cache analyses each file once (cache_manager.py:72-77)
GatheredFiles ==
    {[exists |-> TRUE, rows |-> rows] :
        rows \in {r \in UNION {[1..n -> CacheRows] : n \in 1..MaxRows} :
                    \A i, j \in 1..Len(r) : r[i].file_path = r[j].file_path => i = j}}

\* the cache file of a run: as gathered, or after an earlier conversion
CacheFiles ==
    GatheredFiles \cup {update_cache_entry(f, p) : f \in GatheredFiles, p \in CachePaths}

NoCacheFile == [exists |-> FALSE, rows |-> <<>>]

ActionFilters == {None, CONTAINER_REMUX, TRANCODE_VIDEO}

InitCache ==
    /\ pc = "unit"
    /\ hpc = "none"
    /\ idx = 1
    /\ opts = [delete_original |-> FALSE, dry_run |-> FALSE,
               action_filter |-> None, use_cache |-> FALSE, interactive |-> FALSE]
    /\ info = NoInfo
    /\ mode = "none"
    /\ fs = [src |-> Absent, tmp |-> Absent, final |-> Absent]
    /\ samePath = FALSE
    /\ interrupted = FALSE
    /\ current = FALSE
    /\ proc = NoProc
    /\ stderrBuf = 0
    /\ ret = {}
    /\ result = "none"
    /\ cache = FALSE
    /\ hist = NoHist
    /\ auto_yes = FALSE
    /\ counters = NoCounters
    /\ par = NoPar
    /\ \E f \in {NoCacheFile} \cup CacheFiles,
          d \in SUBSET CachePaths, af \in ActionFilters, o \in AnalysisOutcomes :
         unit = [phase |-> "cache", file |-> f, file0 |-> f, on_disk |-> d,
                 action_filter |-> af, outcome |-> o, path |-> "",
                 file_data_list |-> <<>>, files_to_process |-> <<>>]

\* processor.py:144-145: a finished conversion marks its source
UpdateCacheEntry ==
    /\ unit.phase = "cache"
    /\ \E p \in UpdatePaths :
         unit' = [unit EXCEPT !.phase = "updated", !.path = p,
                              !.file = update_cache_entry(unit.file, p)]
    /\ UNCHANGED <<seqVars, par>>

\* main.py:254-270 of a later run: read_cache_csv, or gather_files_to_cache
\* over the files of the directory when the cache file is missing
GatherOrders == {<<"a.mkv", "b.mkv">>, <<"b.mkv", "a.mkv">>}

Gathered(order, on_disk, outcome) ==
    LET present == SelectSeq(order, LAMBDA p : p \in on_disk)
    IN  [i \in 1..Len(present) |-> analyze_file_for_csv(present[i], outcome)]

LoadCache ==
    /\ unit.phase \in {"cache", "updated"}
    /\ IF unit.file.exists
       THEN unit' = [unit EXCEPT !.phase = "loaded",
                                 !.file_data_list = read_cache_csv(unit.file.rows)]
       ELSE \E order \in GatherOrders :
              LET g == Gathered(order, unit.on_disk, unit.outcome)
              IN  unit' = [unit EXCEPT !.phase = "loaded",
                                       !.file_data_list = g,
                                       !.file = write_analysis_csv(g, unit.file)]
    /\ UNCHANGED <<seqVars, par>>

\* main.py:290
FilterCache ==
    /\ unit.phase = "loaded"
    /\ unit' = [unit EXCEPT !.phase = "filtered",
                            !.files_to_process =
                                filter_cache_files(unit.file_data_list, unit.action_filter,
                                                   unit.on_disk)]
    /\ UNCHANGED <<seqVars, par>>

NextCache ==
    \/ UpdateCacheEntry
    \/ LoadCache
    \/ FilterCache

SpecCache == InitCache /\ [][NextCache]_vars

(***************************************************************************)
(* is_direct_play_compatible(info), lib/media_analyzer.py:99-105.          *)
(***************************************************************************)
is_direct_play_compatible(i) ==
    LET c_ok == i.container = "mp4"
        v_ok == /\ Lower(IF i.video_codec = None THEN "" ELSE i.video_codec) \in {"h264"}
                /\ ~i.is_hdr
        a_ok == /\ i.has_audio
                /\ Len(i.audio) > 0
                /\ \A k \in 1..Len(i.audio) : i.audio[k].codec \in {"aac"}
                /\ \A k \in 1..Len(i.audio) : i.audio[k].channels = 2
    IN  c_ok /\ v_ok /\ a_ok

(***************************************************************************)
(* MediaInfo, lib/models.py:57-126, and the MediaInfo that                 *)
(* ParallelProcessor._analyze_single_file builds from a descriptor         *)
(* (lib/parallel_processor.py:97-135).                                     *)
(***************************************************************************)
hdr_transfers == {"smpte2084", "arib-std-b67", "smpte428", "iec61966-2-1"}

hdr_primaries == {"bt2020", "smpte431", "smpte432"}

NoStream == [present |-> FALSE, codec_name |-> None, color_transfer |-> None,
             color_primaries |-> None, side_data_list |-> <<>>]

\* models.py:27-32 with the defaults of the fields
VideoStreamInfo(codec_name) ==
    [present |-> TRUE, codec_name |-> codec_name, color_transfer |-> None,
     color_primaries |-> None, side_data_list |-> <<>>]

\* models.py:35-48; a side data entry is its lower-cased type, told by
\* whether it names hdr, mastering or content_light
VideoStreamInfo_is_hdr(vs) ==
    \/ vs.color_transfer # None /\ vs.color_transfer \in hdr_transfers
    \/ vs.color_primaries # None /\ vs.color_primaries \in hdr_primaries
    \/ \E k \in 1..Len(vs.side_data_list) :
         vs.side_data_list[k] \in {"hdr", "mastering", "content_light"}

\* parallel_processor.py:105-132
MediaInfoOf(i) ==
    [container |-> i.container,
     video_stream |-> IF i.has_video
                      THEN VideoStreamInfo(IF i.video_codec = None THEN "unknown"
                                           ELSE i.video_codec)
                      ELSE NoStream,
     audio_streams |-> IF i.has_audio
                       THEN [k \in 1..Len(i.audio) |->
                               [codec_name |-> i.audio[k].codec,
                                channels |-> i.audio[k].channels]]
                       ELSE <<>>]

\* models.py:75-81
MediaInfo_is_hdr(m) ==
    IF m.video_stream.present THEN VideoStreamInfo_is_hdr(m.video_stream) ELSE FALSE

MediaInfo_video_codec(m) ==
    IF m.video_stream.present THEN m.video_stream.codec_name ELSE None

\* models.py:101-105, 111-115
MediaInfo_container_ok(m) == m.container = "mp4"

MediaInfo_video_ok(m) ==
    /\ Lower(IF MediaInfo_video_codec(m) = None THEN "" ELSE MediaInfo_video_codec(m)) = "h264"
    /\ ~MediaInfo_is_hdr(m)

MediaInfo_audio_ok(m) ==
    /\ Len(m.audio_streams) > 0
    /\ \A k \in 1..Len(m.audio_streams) : m.audio_streams[k].codec_name = "aac"
    /\ \A k \in 1..Len(m.audio_streams) : m.audio_streams[k].channels = 2

\* models.py:99-107
MediaInfo_is_direct_play_compatible(m) ==
    MediaInfo_container_ok(m) /\ MediaInfo_video_ok(m) /\ MediaInfo_audio_ok(m)

\* models.py:109-126
MediaInfo_get_required_action(m) ==
    LET c == MediaInfo_container_ok(m)
        v == MediaInfo_video_ok(m)
        a == MediaInfo_audio_ok(m)
    IN  IF c /\ v /\ a THEN SKIP
        ELSE IF ~c /\ v /\ a THEN CONTAINER_REMUX
        ELSE IF c /\ v /\ ~a THEN REMUX_AUDIO
        ELSE IF c /\ a /\ ~v THEN TRANCODE_VIDEO
        ELSE TRANCODE_ALL

(***************************************************************************)
(* The two implementations of the decision side by side, on every          *)
(* descriptor: needs_processing (called twice, with the out_ext of the     *)
(* program and with another one) and is_direct_play_compatible on the      *)
(* descriptor, get_required_action and is_direct_play_compatible on the    *)
(* MediaInfo built from it.                                                *)
(***************************************************************************)
OutExts == {"mp4", "mkv"}

InitAgree ==
    /\ pc = "unit"
    /\ hpc = "none"
    /\ idx = 1
    /\ opts = [delete_original |-> FALSE, dry_run |-> FALSE,
               action_filter |-> None, use_cache |-> FALSE, interactive |-> FALSE]
    /\ info = NoInfo
    /\ mode = "none"
    /\ fs = [src |-> Absent, tmp |-> Absent, final |-> Absent]
    /\ samePath = FALSE
    /\ interrupted = FALSE
    /\ current = FALSE
    /\ proc = NoProc
    /\ stderrBuf = 0
    /\ ret = {}
    /\ result = "none"
    /\ cache = FALSE
    /\ hist = NoHist
    /\ auto_yes = FALSE
    /\ counters = NoCounters
    /\ par = NoPar
    /\ \E i \in AllDescriptors, e \in OutExts :
         unit = [phase |-> "decide", info |-> i, out_ext |-> e]

Decide ==
    /\ unit.phase = "decide"
    /\ unit' = [phase |-> "decided", info |-> unit.info, out_ext |-> unit.out_ext,
                action |-> needs_processing(unit.info, "mp4"),
                action_ext |-> needs_processing(unit.info, unit.out_ext),
                compatible |-> is_direct_play_compatible(unit.info),
                media_action |-> MediaInfo_get_required_action(MediaInfoOf(unit.info)),
                media_compatible |->
                    MediaInfo_is_direct_play_compatible(MediaInfoOf(unit.info))]
    /\ UNCHANGED <<seqVars, par>>

NextAgree == Decide

SpecAgree == InitAgree /\ [][NextAgree]_vars

(***************************************************************************)
(* detect_gpu_acceleration, lib/gpu_utils.py:8-59.  'ffmpeg -encoders' is  *)
(* missing, exits nonzero, or lists encoders; the listing is the set of    *)
(* encoder names it holds, and "'x' in encoders_output" is whether one of  *)
(* the names holds x.  sys.platform is the host.                           *)
(***************************************************************************)
ToolOutcomes == {"missing", "nonzero", "listed"}

EncoderNames == {"h264_videotoolbox", "hevc_videotoolbox", "h264_nvenc", "h264_qsv"}

Hosts == {"darwin", "linux"}

Mentions(listing, word) ==
    CASE word = "videotoolbox" -> listing \cap {"h264_videotoolbox", "hevc_videotoolbox"} # {}
      [] word = "h264_nvenc" -> "h264_nvenc" \in listing
      [] word = "h264_qsv" -> "h264_qsv" \in listing
      [] OTHER -> FALSE

Unavailable == [given |-> TRUE, available |-> FALSE, platform |-> "None", encoder |-> "None"]

detect_gpu_acceleration_intelFirst(tool, listing, host) ==
    IF tool # "listed" THEN Unavailable
    ELSE IF Mentions(listing, "videotoolbox") /\ host = "darwin"
    THEN [given |-> TRUE, available |-> TRUE, platform |-> "metal",
          encoder |-> "h264_videotoolbox"]
    ELSE IF Mentions(listing, "h264_qsv")
    THEN [given |-> TRUE, available |-> TRUE, platform |-> "intel", encoder |-> "h264_qsv"]
    ELSE IF Mentions(listing, "h264_nvenc")
    THEN [given |-> TRUE, available |-> TRUE, platform |-> "nvidia", encoder |-> "h264_nvenc"]
    ELSE Unavailable

detect_gpu_acceleration(tool, listing, host) ==
    IF tool # "listed" THEN Unavailable
    ELSE IF Mentions(listing, "videotoolbox") /\ host = "darwin"
    THEN [given |-> TRUE, available |-> TRUE, platform |-> "metal",
          encoder |-> "h264_videotoolbox"]
    ELSE IF Mentions(listing, "h264_nvenc")
    THEN [given |-> TRUE, available |-> TRUE, platform |-> "nvidia", encoder |-> "h264_nvenc"]
    ELSE IF Mentions(listing, "h264_qsv")
    THEN [given |-> TRUE, available |-> TRUE, platform |-> "intel", encoder |-> "h264_qsv"]
    ELSE Unavailable

(***************************************************************************)
(* Detection, then the encoder parameters for the detected capability      *)
(* with every CRF main.py:68 accepts and the presets of the table and one  *)
(* outside it.                                                             *)
(***************************************************************************)
MaxCrf == 51

GpuPresets ==
    {"ultrafast", "superfast", "veryfast", "faster", "fast", "medium",
     "slow", "slower", "veryslow", "placebo"}

InitGpu ==
    /\ pc = "unit"
    /\ hpc = "none"
    /\ idx = 1
    /\ opts = [delete_original |-> FALSE, dry_run |-> FALSE,
               action_filter |-> None, use_cache |-> FALSE, interactive |-> FALSE]
    /\ info = NoInfo
    /\ mode = "none"
    /\ fs = [src |-> Absent, tmp |-> Absent, final |-> Absent]
    /\ samePath = FALSE
    /\ interrupted = FALSE
    /\ current = FALSE
    /\ proc = NoProc
    /\ stderrBuf = 0
    /\ ret = {}
    /\ result = "none"
    /\ cache = FALSE
    /\ hist = NoHist
    /\ auto_yes = FALSE
    /\ counters = NoCounters
    /\ par = NoPar
    /\ \E t \in ToolOutcomes, h \in Hosts :
         \E l \in (IF t = "listed" THEN SUBSET EncoderNames ELSE {{}}) :
           unit = [phase |-> "detect", tool |-> t, listing |-> l, host |-> h]

Detect ==
    /\ unit.phase = "detect"
    /\ unit' = [phase |-> "detected", tool |-> unit.tool, listing |-> unit.listing,
                host |-> unit.host,
                gpu_info |-> detect_gpu_acceleration(unit.tool, unit.listing, unit.host)]
    /\ UNCHANGED <<seqVars, par>>

EncoderParams ==
    /\ unit.phase = "detected"
    /\ \E crf \in 0..MaxCrf, preset \in GpuPresets :
         unit' = [phase |-> "params", tool |-> unit.tool, listing |-> unit.listing,
                  host |-> unit.host, gpu_info |-> unit.gpu_info,
                  crf |-> crf, preset |-> preset,
                  params |-> get_gpu_encoder_params(unit.gpu_info, crf, preset)]
    /\ UNCHANGED <<seqVars, par>>

NextGpu ==
    \/ Detect
    \/ EncoderParams

SpecGpu == InitGpu /\ [][NextGpu]_vars

(***************************************************************************)
(* ProgressMonitor, lib/ffmpeg_runner.py:19-79.  Times are kept in         *)
(* hundredths of a second (the resolution of the time= format; the         *)
(* out_time_us values drawn are multiples of it) and the percentage as a   *)
(* fraction num/den, so the float arithmetic of the code is exact here.    *)
(* A line of the subprocess is told                                        *)
(* by what the parser looks at: 'out_time_us=<text>' with the text an      *)
(* integer literal (or not: int() raises ValueError), 'time=HH:MM:SS.cc'   *)
(* (the pattern wants two digits after 'time=', a sign does not match),    *)
(* or anything else.                                                       *)
(***************************************************************************)
MaxProgressLines == 3

NoDuration == 0

\* duration_seconds handed to ProgressMonitor: None, or 4 s and 8 s
Durations == {NoDuration, 400, 800}

ProgressLines ==
    {[kind |-> "out_time_us", literal |-> TRUE, cs |-> u] :
        u \in {-200, 0, 220, 400, 1200}}
    \cup {[kind |-> "out_time_us", literal |-> FALSE, cs |-> 0]}
    \cup {[kind |-> "time", literal |-> b, cs |-> u] :
            b \in BOOLEAN, u \in {220, 1200}}
    \cup {[kind |-> "other", literal |-> FALSE, cs |-> 0],
          [kind |-> "blank", literal |-> FALSE, cs |-> 0]}

Fraction(n, d) == [num |-> n, den |-> d]

\* min(100, x) of line 46 and line 60
Min100(x) == IF x.num >= 100 * x.den THEN Fraction(100, 1) ELSE x

\* lines 44-46 and 58-60: current_time and, with a duration, the percentage
Advance(mon, cs) ==
    [mon EXCEPT !.current_time = cs,
                !.progress_percent =
                    IF mon.duration # NoDuration /\ mon.duration > 0
                    THEN Min100(Fraction(cs * 100, mon.duration))
                    ELSE @]

\* lines 33-79: the monitor afterwards and the value returned
parse_progress_line(mon, line) ==
    IF line.kind = "blank" THEN [mon |-> mon, ret |-> FALSE]
    ELSE IF line.kind = "out_time_us" /\ line.literal
    THEN [mon |-> Advance(mon, line.cs), ret |-> TRUE]
    ELSE IF line.kind = "time" /\ line.literal
    THEN [mon |-> Advance(mon, line.cs), ret |-> TRUE]
    ELSE [mon |-> mon, ret |-> FALSE]

\* lines 22-31
ProgressMonitor(duration_seconds) ==
    [duration |-> duration_seconds, current_time |-> 0, progress_percent |-> Fraction(0, 1)]

InitProgress ==
    /\ pc = "unit"
    /\ hpc = "none"
    /\ idx = 1
    /\ opts = [delete_original |-> FALSE, dry_run |-> FALSE,
               action_filter |-> None, use_cache |-> FALSE, interactive |-> FALSE]
    /\ info = NoInfo
    /\ mode = "none"
    /\ fs = [src |-> Absent, tmp |-> Absent, final |-> Absent]
    /\ samePath = FALSE
    /\ interrupted = FALSE
    /\ current = FALSE
    /\ proc = NoProc
    /\ stderrBuf = 0
    /\ ret = {}
    /\ result = "none"
    /\ cache = FALSE
    /\ hist = NoHist
    /\ auto_yes = FALSE
    /\ counters = NoCounters
    /\ par = NoPar
    /\ \E d \in Durations :
         unit = [phase |-> "progress", mon |-> ProgressMonitor(d), lines |-> 0,
                 before |-> ProgressMonitor(d),
                 line |-> [kind |-> "blank", literal |-> FALSE, cs |-> 0],
                 parsed |-> FALSE]

\* ffmpeg_runner.py:207-215: one line read from the subprocess and parsed
ParseProgressLine ==
    /\ unit.phase = "progress"
    /\ unit.lines < MaxProgressLines
    /\ \E line \in ProgressLines :
         LET r == parse_progress_line(unit.mon, line)
         IN  unit' = [phase |-> "progress", mon |-> r.mon, lines |-> unit.lines + 1,
                      before |-> unit.mon, line |-> line, parsed |-> r.ret]
    /\ UNCHANGED <<seqVars, par>>

NextProgress == ParseProgressLine

SpecProgress == InitProgress /\ [][NextProgress]_vars

(***************************************************************************)
(*                              PROPERTIES                                 *)
(***************************************************************************)
FileEnded == pc = "batch_result"

(***************************************************************************)
(* C1.  needs_processing(info, 'mp4') is the decision table: Skip when     *)
(* container, video and audio are all fine; ContainerRemux when only the   *)
(* container fails; RemuxAudio when only the audio fails; TranscodeVideo   *)
(* when only the video fails; TranscodeAll otherwise.  The three checks    *)
(* are written here from the claim: container is 'mp4'; video codec is     *)
(* 'h264' in any letter case and the stream is not HDR; there is an audio  *)
(* stream and every audio stream is 'aac' with exactly 2 channels.         *)
(* Checked under SpecClassify.                                             *)
(***************************************************************************)
TableContainerOK(i) == i.container = "mp4"

TableVideoOK(i) == i.video_codec \in {"h264", "H264"} /\ i.is_hdr = FALSE

TableAudioOK(i) ==
    /\ Len(i.audio) >= 1
    /\ \A k \in DOMAIN i.audio : i.audio[k] = [codec |-> "aac", channels |-> 2]

TableAction(c, v, a) ==
    CASE c /\ v /\ a   -> SKIP
      [] ~c /\ v /\ a  -> CONTAINER_REMUX
      [] c /\ v /\ ~a  -> REMUX_AUDIO
      [] c /\ ~v /\ a  -> TRANCODE_VIDEO
      [] OTHER         -> TRANCODE_ALL

C1_DecisionTable ==
    pc = "classified" =>
        mode = TableAction(TableContainerOK(info), TableVideoOK(info), TableAudioOK(info))

C1_Witness ==
    /\ pc = "classified"
    /\ info.container = "mp4"
    /\ ~TableVideoOK(info)
    /\ ~TableAudioOK(info)
    /\ mode = TRANCODE_ALL

(***************************************************************************)
(* C2.  A call of run() that finds the interruption flag set launches no   *)
(* subprocess and returns 130 at once.  hist.entry is the latest call of   *)
(* run() (probe, duration or encode); the flag is never cleared, so this   *)
(* covers every call after the flag was raised.                            *)
(***************************************************************************)
C2_NoLaunchOnceInterrupted ==
    hist.entry.flag => (~hist.entry.spawn /\ hist.entry.code = {130})

C2_Witness ==
    /\ interrupted
    /\ hist.entry.flag
    /\ ~hist.entry.spawn
    /\ FileEnded
    /\ result = "error"
    /\ proc.state = "none"

(***************************************************************************)
(* C3.  If the flag becomes set while run(show_progress=True) has its      *)
(* subprocess running (and the handler terminated that subprocess), the    *)
(* call returns 130 to process_file.                                       *)
(***************************************************************************)
C3_InterruptReturns130 ==
    (hist.sigInFlight /\ proc.term /\ hist.runEnd # "none") =>
        (hist.runEnd = "returned" /\ ret = {130})

(***************************************************************************)
(* C4.  The encode subprocess is force-killed only after it was sent the   *)
(* graceful termination, and once the flag is set the subprocess is no     *)
(* longer alive when the invocation of run() has ended.                    *)
(***************************************************************************)
C4_SubprocessDeadWhenRunEnds ==
    /\ (proc.kind = "encode" /\ proc.kill) => proc.term
    /\ (interrupted /\ proc.kind = "encode" /\ hist.runEnd # "none") => ~Alive

(***************************************************************************)
(* C5.  If a signal arrives while the encode subprocess of process_file    *)
(* is in flight and the subprocess dies by the handler's termination or    *)
(* kill, then once the program has stopped working on the file             *)
(* (process_file is over, or the program has ended) out_path does not      *)
(* exist.                                                                  *)
(***************************************************************************)
C5_NoPartialAfterInterrupt ==
    (/\ hist.sigInFlight
     /\ proc.term
     /\ proc.state = "exited"
     /\ proc.code < 0
     /\ pc \in {"batch_result", "summary", "exited"}) =>
        fs.tmp = Absent

(***************************************************************************)
(* C6.  While the flag is not set, a nonzero exit code of the subprocess,  *)
(* whatever its number, makes process_file return 'error', never           *)
(* 'interrupted'.                                                          *)
(***************************************************************************)
C6_InterruptedOnlyWhenFlagged ==
    (FileEnded /\ ~interrupted /\ ret # {} /\ ret # {0}) => result = "error"

(***************************************************************************)
(* C7.  When run() returned a nonzero code after the subprocess had        *)
(* written out_path, and deleting out_path did not itself fail, then at    *)
(* the end of process_file out_path is gone, the source is there with its  *)
(* content, there is no final file, the cache entry is untouched, and the  *)
(* result is 'interrupted' for 130 and 'error' for any other code.         *)
(***************************************************************************)
C7_FailureCleanup ==
    (FileEnded /\ ret # {} /\ ret # {0} /\ hist.wrote /\ "cleanup_unlink" \notin hist.faults) =>
        /\ fs.tmp = Absent
        /\ fs.src = "original"
        /\ fs.final = Absent
        /\ ~cache
        /\ result = (IF ret = {130} THEN "interrupted" ELSE "error")

C7_Witness ==
    /\ FileEnded
    /\ ret = {1}
    /\ hist.wrote
    /\ hist.faults = {}
    /\ result = "error"
    /\ fs.tmp = Absent
    /\ fs.src = "original"

(***************************************************************************)
(* C8.  Whatever way process_file ends, out_path does not exist then,      *)
(* also when deleting the original or the rename failed (the case that a   *)
(* deletion of out_path itself failed is left out).                        *)
(***************************************************************************)
C8_NoOrphanTemp ==
    (FileEnded /\ hist.faults \cap {"cleanup_unlink", "fin_unlink"} = {}) => fs.tmp = Absent

(***************************************************************************)
(* C9.  After a completed encode the original is deleted only if           *)
(* delete_original was requested: without it, the source still exists      *)
(* when process_file has returned 'processed'.                             *)
(***************************************************************************)
C9_OriginalKeptUnlessRequested ==
    (FileEnded /\ result = "processed" /\ ~opts.delete_original) => fs.src # Absent

NeedsWork == mode \in Action \ {SKIP}

PassesFilter == opts.action_filter = None \/ mode = opts.action_filter

NotDeclined == hist.choice \in {"none", "yes", "all"}

EncodeSpawned == proc.kind = "encode"

(***************************************************************************)
(* C11.  The output path process_file hands to build_ffmpeg_cmd is named   *)
(* 'convert.<stem>.mp4' (it starts with 'convert.'), and the final name is *)
(* '<stem>.mp4'.                                                           *)
(***************************************************************************)
C11_TempNamePrefixed ==
    hist.cmdBuilt =>
        /\ hist.outName = <<"convert">> \o hist.stem \o <<"mp4">>
        /\ hist.finalName = hist.stem \o <<"mp4">>

(***************************************************************************)
(* C12.  When final_path is the source itself (an '.mp4' source processed  *)
(* in place that needs RemuxAudio, TranscodeVideo or TranscodeAll) and     *)
(* deleting the original is requested, process_file does not return        *)
(* 'skipped' on the grounds that the destination exists.                   *)
(***************************************************************************)
C12_InPlaceNotSkipped ==
    (/\ FileEnded
     /\ samePath
     /\ opts.delete_original
     /\ mode \in {REMUX_AUDIO, TRANCODE_VIDEO, TRANCODE_ALL}
     /\ PassesFilter
     /\ NotDeclined
     /\ ~opts.dry_run) =>
        result # "skipped"

C14_FilteredWithoutSideEffects ==
    (/\ FileEnded
     /\ mode \in Action
     /\ opts.action_filter # None
     /\ mode # opts.action_filter) =>
        /\ result = "filtered"
        /\ hist.choice = "none"
        /\ ~EncodeSpawned
        /\ ~hist.mkdir
        /\ ~hist.cmdBuilt
        /\ fs = [src |-> "original", tmp |-> Absent, final |-> hist.final0]
        /\ ~cache

C14_Witness ==
    /\ FileEnded
    /\ mode = SKIP
    /\ opts.action_filter = TRANCODE_VIDEO
    /\ opts.interactive
    /\ ~auto_yes
    /\ result = "filtered"

(***************************************************************************)
(* C15.  In a dry run, a file that needs work, passes the filter and was   *)
(* not declined ends as 'processed' with no encode run, no directory made, *)
(* no output file, the source in place and the cache entry as it was.      *)
(***************************************************************************)
C15_DryRunNoEffects ==
    (/\ FileEnded
     /\ opts.dry_run
     /\ NeedsWork
     /\ PassesFilter
     /\ NotDeclined) =>
        /\ result = "processed"
        /\ ~EncodeSpawned
        /\ hist.runEnd = "none"
        /\ ~hist.mkdir
        /\ fs = [src |-> "original", tmp |-> Absent, final |-> hist.final0]
        /\ ~cache

C15_Witness ==
    /\ FileEnded
    /\ opts.dry_run
    /\ opts.use_cache
    /\ mode = CONTAINER_REMUX
    /\ hist.final0 = Absent
    /\ result = "processed"
    /\ fs.src = "original"

(***************************************************************************)
(* C16.  A failure of the cache update after a successful conversion does  *)
(* not change the file's outcome: the result is 'processed' and the batch  *)
(* has counted no error for it.                                            *)
(***************************************************************************)
C16_CacheFailureNotEscalated ==
    (/\ FileEnded
     /\ ret = {0}
     /\ fs.final = "converted"
     /\ "cache_update" \in hist.faults) =>
        result = "processed"

(***************************************************************************)
(* C17.  When process_batch_parallel has finished, every file whose        *)
(* result is 'processed' has processed = true in the cache file.  Checked  *)
(* under SpecParallel.                                                     *)
(***************************************************************************)
C17_NoLostCacheUpdate ==
    par.phase = "done" =>
        \A f \in ParFiles : par.res[f] = "processed" => par.cacheFile[f]

(***************************************************************************)
(* C18.  In parallel mode at most 2 encode subprocesses run at the same    *)
(* time, whatever max_workers and the number of files, and the encode pool *)
(* has its own size: the analysis pool has max_workers workers, the encode *)
(* pool at most 2.  Checked under SpecParallel.                            *)
(***************************************************************************)
C18_AtMostTwoEncodes ==
    par.phase # "off" =>
        /\ Cardinality(Encoding) <= 2
        /\ par.processing_workers <= 2
        /\ par.processing_workers <= par.analysis_workers
        /\ par.analysis_workers = par.max_workers

C18_Witness ==
    /\ par.phase = "run"
    /\ par.max_workers = 3
    /\ Cardinality(Encoding) = 2
    /\ par.pending # {}

(***************************************************************************)
(* C19.  Once the interruption flag has been raised, process_files_batch   *)
(* calls process_file for no further file.                                 *)
(***************************************************************************)
C19_NoFileAfterFlag == ~hist.flagAtCall

(***************************************************************************)
(* C20.  A file whose probe exited nonzero is not classified, gets no      *)
(* command and no encode, is counted as exactly one error, and the batch   *)
(* loop goes on to the next file.                                          *)
(***************************************************************************)
C20_ProbeFailureIsPerFile ==
    [][(pc = "batch_result" /\ hist.probeFailed /\ hpc = "none" /\ pc' # pc) =>
           /\ result = "error"
           /\ mode = "none"
           /\ ~hist.cmdBuilt
           /\ ~EncodeSpawned
           /\ counters' = [counters EXCEPT !.errors = @ + 1]
           /\ pc' = "batch_next"
           /\ idx' = idx + 1]_vars

C20_Witness ==
    /\ pc = "batch_next"
    /\ idx = 2
    /\ hist.probeFailed
    /\ result = "error"
    /\ counters = [NoCounters EXCEPT !.errors = 1]
    /\ ~interrupted

(***************************************************************************)
(* C28.  normalize_language is idempotent: applied to its own result it    *)
(* returns that result, for every input (known alias, unknown tag, any     *)
(* letter case, empty string, None).  Checked under SpecNormalize.         *)
(***************************************************************************)
C28_NormalizeIdempotent ==
    unit.phase = "normalized" => unit.twice = unit.once

C28_Witness ==
    /\ unit.phase = "normalized"
    /\ unit.lang_code = <<"G", "E", "R", "M", "A", "N">>
    /\ unit.once = <<"d", "e">>
    /\ unit.twice = <<"d", "e">>

(***************************************************************************)
(* C29.  normalize_language maps a known code or alias in any letter case  *)
(* to its canonical tag (deu, ger, german, deutsch to de; ja, jpn,         *)
(* japanese to jp; und to unknown; a canonical tag to itself), the empty   *)
(* string and None to unknown, and every other input to its lower-cased    *)
(* self, never to unknown.  Checked under SpecNormalize.                   *)
(***************************************************************************)
CanonicalTags == {<<"d", "e">>, <<"e", "n">>, <<"j", "p">>, <<"f", "r">>,
                  <<"e", "s">>, <<"i", "t">>, <<"u", "n", "k", "n", "o", "w", "n">>}

GermanAliases == {<<"d", "e", "u">>, <<"g", "e", "r">>, <<"g", "e", "r", "m", "a", "n">>,
                  <<"d", "e", "u", "t", "s", "c", "h">>}

JapaneseAliases == {<<"j", "a">>, <<"j", "p", "n">>, <<"j", "a", "p", "a", "n", "e", "s", "e">>}

IsInput(x) == x # NoneStr

KnownAlias(x) == IsInput(x) /\ x # <<>> /\ \E p \in LANGUAGE_MAP : p[1] = lower(x)

C29_NormalizeTable ==
    unit.phase = "normalized" =>
        LET x == unit.lang_code
            y == unit.once
        IN  /\ (x = NoneStr \/ x = <<>>) => y = <<"u", "n", "k", "n", "o", "w", "n">>
            /\ (IsInput(x) /\ lower(x) \in GermanAliases) => y = <<"d", "e">>
            /\ (IsInput(x) /\ lower(x) \in JapaneseAliases) => y = <<"j", "p">>
            /\ (IsInput(x) /\ lower(x) = <<"u", "n", "d">>) => y = <<"u", "n", "k", "n", "o", "w", "n">>
            /\ (IsInput(x) /\ lower(x) \in CanonicalTags) => y = lower(x)
            /\ KnownAlias(x) => y \in CanonicalTags
            /\ (IsInput(x) /\ x # <<>> /\ ~KnownAlias(x)) =>
                   (y = lower(x) /\ y # <<"u", "n", "k", "n", "o", "w", "n">>)

C29_Witness ==
    /\ unit.phase = "normalized"
    /\ unit.lang_code = <<"z", "h", "-", "C", "N">>
    /\ unit.once = <<"z", "h", "-", "c", "n">>

(***************************************************************************)
(* C26.  With a non-empty keep list the selector retains exactly the       *)
(* streams whose normalized language is in the list or is 'unknown'; with  *)
(* an empty keep list it retains every stream.  Each retained stream       *)
(* appears once, under its original index and with its normalized          *)
(* language.  Checked under SpecSelect.                                    *)
(***************************************************************************)
LangOf(streams, i) == normalize_language(streams[i + 1])

Retained(streams, keep) ==
    {i \in 0..(Len(streams) - 1) :
        keep = <<>> \/ LangOf(streams, i) \in Range(keep)
                    \/ LangOf(streams, i) = <<"u", "n", "k", "n", "o", "w", "n">>}

C26_KeepFilter ==
    unit.phase = "selected" =>
        /\ {unit.sel[n].idx : n \in 1..Len(unit.sel)} = Retained(unit.streams, unit.keep_languages)
        /\ Len(unit.sel) = Cardinality(Retained(unit.streams, unit.keep_languages))
        /\ \A n \in 1..Len(unit.sel) : unit.sel[n].lang = LangOf(unit.streams, unit.sel[n].idx)

C26_Witness ==
    /\ unit.phase = "selected"
    /\ unit.streams = <<L_ger, upper(L_en), L_empty>>
    /\ unit.keep_languages = <<L_de>>
    /\ unit.sort_languages = <<>>
    /\ unit.sel = <<[idx |-> 0, lang |-> L_de], [idx |-> 2, lang |-> L_unknown]>>

(***************************************************************************)
(* C27.  With a non-empty sort list the retained streams are ordered by    *)
(* the position of their language in the list, those whose language is     *)
(* not listed behind all listed ones, and streams of equal rank keep       *)
(* their original order; with an empty sort list the original order is     *)
(* kept.  The output holds each retained stream exactly once.  Checked     *)
(* under SpecSelect.                                                       *)
(***************************************************************************)
Listed(lang, sort) == \E k \in 1..Len(sort) : sort[k] = lang

FirstPos(lang, sort) == CHOOSE k \in 1..Len(sort) : sort[k] = lang /\ \A j \in 1..(k - 1) : sort[j] # lang

Before(a, b, sort) ==
    \/ Listed(a.lang, sort) /\ ~Listed(b.lang, sort)
    \/ Listed(a.lang, sort) /\ Listed(b.lang, sort) /\ FirstPos(a.lang, sort) < FirstPos(b.lang, sort)

SameRank(a, b, sort) == ~Before(a, b, sort) /\ ~Before(b, a, sort)

C27_SortOrder ==
    unit.phase = "selected" =>
        /\ \A m, n \in 1..Len(unit.sel) :
             m < n =>
               IF unit.sort_languages = <<>>
               THEN unit.sel[m].idx < unit.sel[n].idx
               ELSE /\ ~Before(unit.sel[n], unit.sel[m], unit.sort_languages)
                    /\ SameRank(unit.sel[m], unit.sel[n], unit.sort_languages)
                           => unit.sel[m].idx < unit.sel[n].idx
        /\ {unit.sel[n].idx : n \in 1..Len(unit.sel)} = Retained(unit.streams, unit.keep_languages)
        /\ Len(unit.sel) = Cardinality(Retained(unit.streams, unit.keep_languages))

C27_Witness ==
    /\ unit.phase = "selected"
    /\ unit.streams = <<upper(L_en), L_ger, L_jpn>>
    /\ unit.keep_languages = <<>>
    /\ unit.sort_languages = <<L_jp, L_en, L_de>>
    /\ unit.sel = <<[idx |-> 2, lang |-> L_jp], [idx |-> 0, lang |-> L_en],
                    [idx |-> 1, lang |-> L_de]>>

(***************************************************************************)
(* Reading a built command: the values that follow a flag, in order, and   *)
(* whether the command holds a run of arguments.                           *)
(***************************************************************************)
RECURSIVE ArgsAfter(_, _)
ArgsAfter(cmd, flag) ==
    IF Len(cmd) < 2 THEN <<>>
    ELSE IF Head(cmd) = flag
         THEN <<cmd[2]>> \o ArgsAfter(Tail(Tail(cmd)), flag)
         ELSE ArgsAfter(Tail(cmd), flag)

Contains(cmd, run) ==
    \E i \in 1..(Len(cmd) - Len(run) + 1) : SubSeq(cmd, i, i + Len(run) - 1) = run

HasArg(cmd, a) == \E i \in 1..Len(cmd) : cmd[i] = a

Built == unit.phase = "built"

ReencodesVideo == unit.mode \in {TRANCODE_VIDEO, TRANCODE_ALL}

(***************************************************************************)
(* C21.  build_ffmpeg_cmd returns no command exactly for Skip; every       *)
(* command it returns contains '-movflags +faststart' and ends with the    *)
(* output path.  Checked under SpecBuild.                                  *)
(***************************************************************************)
C21_NullOnlyForSkip ==
    Built =>
        /\ (unit.cmd = <<>>) <=> (unit.mode = SKIP)
        /\ unit.cmd # <<>> =>
             /\ Contains(unit.cmd, <<"-movflags", "+faststart">>)
             /\ unit.cmd[Len(unit.cmd)] = OutPath

C21_Witness ==
    /\ Built
    /\ unit.mode = TRANCODE_ALL
    /\ unit.is_hdr
    /\ unit.use_gpu
    /\ unit.gpu_info.platform = "nvidia"
    /\ unit.cmd # <<>>
    /\ unit.cmd[Len(unit.cmd)] = OutPath

(***************************************************************************)
(* C22.  The codec arguments follow the action: ContainerRemux copies      *)
(* video and audio; RemuxAudio copies video and encodes audio as AAC with  *)
(* 2 channels at 192k; TranscodeVideo encodes video and copies audio;      *)
(* TranscodeAll encodes video and encodes audio as AAC with 2 channels.    *)
(* Each stream type has one codec selection, so none is both copied and    *)
(* encoded.  Checked under SpecBuild.                                      *)
(***************************************************************************)
VideoEncoders == {"libx264", "h264_videotoolbox", "h264_nvenc", "h264_qsv"}

CopiesVideo(cmd) == ArgsAfter(cmd, "-c:v") = <<"copy">>

CopiesAudio(cmd) ==
    /\ ArgsAfter(cmd, "-c:a") = <<"copy">>
    /\ ~HasArg(cmd, "-ac")
    /\ ~HasArg(cmd, "-b:a")

EncodesVideo(cmd) ==
    /\ Len(ArgsAfter(cmd, "-c:v")) = 1
    /\ ArgsAfter(cmd, "-c:v")[1] \in VideoEncoders

EncodesAudioStereo(cmd) ==
    /\ ArgsAfter(cmd, "-c:a") = <<"aac">>
    /\ ArgsAfter(cmd, "-ac") = <<"2">>
    /\ ArgsAfter(cmd, "-b:a") = <<"192k">>

C22_CodecsByAction ==
    (Built /\ unit.mode # SKIP) =>
        /\ unit.mode = CONTAINER_REMUX => CopiesVideo(unit.cmd) /\ CopiesAudio(unit.cmd)
        /\ unit.mode = REMUX_AUDIO => CopiesVideo(unit.cmd) /\ EncodesAudioStereo(unit.cmd)
        /\ unit.mode = TRANCODE_VIDEO => EncodesVideo(unit.cmd) /\ CopiesAudio(unit.cmd)
        /\ unit.mode = TRANCODE_ALL => EncodesVideo(unit.cmd) /\ EncodesAudioStereo(unit.cmd)

C22_Witness ==
    /\ Built
    /\ unit.mode = REMUX_AUDIO
    /\ Contains(unit.cmd, <<"-c:v", "copy", "-c:a", "aac", "-ac", "2", "-b:a", "192k">>)

(***************************************************************************)
(* C23.  Every command maps '0:v:0' first and then one audio map per       *)
(* stream the selector returned, in the selector's order and by original   *)
(* audio index; when the selection is empty (no audio stream, all removed  *)
(* by the keep list, or no descriptor) the one audio map is '0:a:0?'.      *)
(* Checked under SpecBuild.                                                *)
(***************************************************************************)
Selection ==
    IF unit.info.given
    THEN filter_and_sort_streams(unit.info.audio_streams, unit.keep_languages,
                                 unit.sort_languages)
    ELSE <<>>

C23_StreamMaps ==
    (Built /\ unit.mode # SKIP) =>
        LET maps == ArgsAfter(unit.cmd, "-map")
        IN  /\ Len(maps) >= 2
            /\ maps[1] = "0:v:0"
            /\ \A n \in 2..Len(maps) : maps[n] # "0:v:0"
            /\ IF Selection = <<>>
               THEN maps = <<"0:v:0", "0:a:0?">>
               ELSE /\ Len(maps) = 1 + Len(Selection)
                    /\ \A n \in 1..Len(Selection) :
                         maps[n + 1] = "0:a:" \o ToString(Selection[n].idx)

C23_Witness ==
    /\ Built
    /\ unit.mode = CONTAINER_REMUX
    /\ unit.info.given
    /\ unit.info.audio_streams = <<upper(L_en), L_ger>>
    /\ unit.sort_languages = <<L_jp, L_en, L_de>>
    /\ unit.keep_languages = <<L_de>>
    /\ ArgsAfter(unit.cmd, "-map") = <<"0:v:0", "0:a:1">>

(***************************************************************************)
(* C24.  Tone mapping is added only for an HDR source whose video is       *)
(* re-encoded.  Then, with GPU use on the metal platform, the command has  *)
(* the BT.709 colour tags and no '-vf'; otherwise it has '-vf' with the    *)
(* software filter chain directly followed by the colour tags.  In every   *)
(* other case (no HDR, ContainerRemux, RemuxAudio) the command has no      *)
(* '-vf' and no colour tag.  Checked under SpecBuild.                      *)
(***************************************************************************)
Bt709Tags == <<"-color_primaries", "bt709", "-color_trc", "bt709", "-colorspace", "bt709">>

SoftwareChain ==
    "zscale=t=linear:npl=100,format=gbrpf32le,zscale=p=bt709,tonemap=tonemap=hable:desat=0,zscale=t=bt709:m=bt709:r=tv,format=yuv420p"

NoToneMapping(cmd) ==
    /\ ~HasArg(cmd, "-vf")
    /\ ~HasArg(cmd, "-color_primaries")
    /\ ~HasArg(cmd, "-color_trc")
    /\ ~HasArg(cmd, "-colorspace")

GpuOnMetal == unit.use_gpu /\ unit.gpu_info.given /\ unit.gpu_info.platform = "metal"

C24_ToneMapping ==
    (Built /\ unit.mode # SKIP) =>
        IF unit.is_hdr /\ ReencodesVideo
        THEN IF GpuOnMetal
             THEN ~HasArg(unit.cmd, "-vf") /\ Contains(unit.cmd, Bt709Tags)
             ELSE Contains(unit.cmd, <<"-vf", SoftwareChain>> \o Bt709Tags)
        ELSE NoToneMapping(unit.cmd)

C24_Witness ==
    /\ Built
    /\ unit.mode = TRANCODE_VIDEO
    /\ unit.is_hdr
    /\ GpuOnMetal
    /\ ~HasArg(unit.cmd, "-vf")
    /\ Contains(unit.cmd, Bt709Tags)

(***************************************************************************)
(* C25.  When GPU encoding is requested and no capability is available     *)
(* (no gpu_info, or available is false), a command that re-encodes video   *)
(* selects libx264 with the given preset and CRF; and for every capability *)
(* the detector returns a command that re-encodes video has exactly one    *)
(* '-c:v'.  Checked under SpecBuild.                                       *)
(***************************************************************************)
C25_GpuFallback ==
    (Built /\ ReencodesVideo) =>
        /\ Len(ArgsAfter(unit.cmd, "-c:v")) = 1
        /\ (unit.use_gpu /\ (~unit.gpu_info.given \/ ~unit.gpu_info.available)) =>
               Contains(unit.cmd, <<"-c:v", "libx264", "-preset", unit.preset,
                                    "-crf", ToString(unit.crf)>>)

C25_Witness ==
    /\ Built
    /\ unit.mode = TRANCODE_ALL
    /\ unit.use_gpu
    /\ unit.gpu_info.given
    /\ ~unit.gpu_info.available
    /\ unit.crf = 51
    /\ Contains(unit.cmd, <<"-c:v", "libx264", "-preset", unit.preset, "-crf", "51">>)

(***************************************************************************)
(* C30.  While process_file works on a file, the media is never lost: the  *)
(* original exists, or the complete encoded output exists under its        *)
(* temporary or its final name.                                            *)
(***************************************************************************)
C30_MediaNeverLost ==
    hist.stem # <<>> =>
        \/ fs.src # Absent
        \/ fs.tmp = "converted"
        \/ fs.final = "converted"

(***************************************************************************)
(* C31.  From the launch of the encode subprocess by run() to its exit the *)
(* global handle refers to it, so a signal at any instant finds it; the    *)
(* handle is set only inside an encode invocation; and the program does    *)
(* not end while the encode subprocess is still running.                   *)
(***************************************************************************)
C31_HandleCoversSubprocess ==
    /\ (proc.kind = "encode" /\ Alive) => current
    /\ current => (proc.kind = "encode" /\ InRunTry)
    /\ pc = "exited" => ~(proc.kind = "encode" /\ Alive)

(***************************************************************************)
(* C32.  process_file calls update_cache_entry at most once, only when a   *)
(* cache path was given, with the source path, and only after the encode   *)
(* returned 0 and the output was renamed to final_path; a result           *)
(* 'processed' of a real run with a cache path has made the call.  The     *)
(* entry is marked only on that path: after a dry run and after every      *)
(* result other than 'processed' the entry is unmarked.                    *)
(***************************************************************************)
Finalized == ret = {0} /\ fs.final = "converted" /\ fs.tmp = Absent

C32_CacheOnlyAfterFinalize ==
    /\ Len(hist.cacheCalls) <= 1
    /\ hist.cacheCalls # <<>> =>
         (opts.use_cache /\ Finalized /\ ~opts.dry_run /\ hist.cacheCalls = <<hist.stem>>)
    /\ cache => (hist.cacheCalls # <<>> /\ result = "processed")
    /\ (FileEnded /\ result = "processed" /\ opts.use_cache /\ ~opts.dry_run) =>
         hist.cacheCalls = <<hist.stem>>
    /\ (FileEnded /\ (opts.dry_run \/ result # "processed")) => ~cache

C32_Witness ==
    /\ FileEnded
    /\ opts.use_cache
    /\ result = "processed"
    /\ Finalized
    /\ cache
    /\ hist.cacheCalls = <<hist.stem>>

(***************************************************************************)
(* C33.  update_cache_entry(cache, path) sets processed to true and        *)
(* processing_date to a non-empty value on the entry whose file_path is    *)
(* path, and every other entry and every other field of the cache file     *)
(* keeps its value, in the same number and order; when the file is absent  *)
(* or holds no such entry the cache is unchanged.  Checked under           *)
(* SpecCache.                                                              *)
(***************************************************************************)
TargetRow(rows, path) ==
    IF \E i \in 1..Len(rows) : rows[i].file_path = path
    THEN CHOOSE i \in 1..Len(rows) : rows[i].file_path = path
    ELSE 0

C33_OnlyTargetEntryChanges ==
    unit.phase = "updated" =>
        LET before == unit.file0
            after == unit.file
            k == TargetRow(before.rows, unit.path)
        IN  IF ~before.exists \/ k = 0
            THEN after = before
            ELSE /\ after.exists
                 /\ Len(after.rows) = Len(before.rows)
                 /\ \A i \in 1..Len(before.rows) :
                      /\ after.rows[i].file_path = before.rows[i].file_path
                      /\ after.rows[i].has_video = before.rows[i].has_video
                      /\ after.rows[i].direct_play_compatible =
                             before.rows[i].direct_play_compatible
                      /\ after.rows[i].action_needed = before.rows[i].action_needed
                      /\ i # k => after.rows[i] = before.rows[i]
                 /\ after.rows[k].processed = "True"
                 /\ after.rows[k].processing_date # ""

(***************************************************************************)
(* C34.  In a cache-driven run filter_cache_files selects no entry whose   *)
(* processed flag is true and no entry whose file is gone, so a path that  *)
(* an earlier update marked in the cache file is not selected; an entry    *)
(* flagged direct_play_compatible is selected only under an action filter. *)
(* Checked under SpecCache.                                                *)
(***************************************************************************)
FlagTrue(v) == IF v.t = "bool" THEN v.b ELSE StrLower(v.s) = "true"

SelectedPaths == {unit.files_to_process[n] : n \in 1..Len(unit.files_to_process)}

MarkedInFile == {unit.file.rows[i].file_path : i \in
                    {j \in 1..Len(unit.file.rows) : unit.file.rows[j].processed = "True"}}

C34_ProcessedNeverSelected ==
    unit.phase = "filtered" =>
        /\ \A i \in 1..Len(unit.file_data_list) :
             LET entry == unit.file_data_list[i]
             IN  entry.file_path \in SelectedPaths =>
                   /\ entry.file_path \in unit.on_disk
                   /\ ~FlagTrue(entry.processed)
                   /\ FlagTrue(entry.direct_play_compatible) => unit.action_filter # None
        /\ SelectedPaths \cap MarkedInFile = {}
        /\ \A p \in SelectedPaths :
             \E i \in 1..Len(unit.file_data_list) : unit.file_data_list[i].file_path = p

C34_Witness ==
    /\ unit.phase = "filtered"
    /\ unit.path = "a.mkv"
    /\ unit.on_disk = {"a.mkv", "b.mkv"}
    /\ MarkedInFile = {"a.mkv"}
    /\ Len(unit.file_data_list) = 2
    /\ unit.action_filter = None
    /\ unit.files_to_process = <<"b.mkv">>

(***************************************************************************)
(* C35.  The command built for the classified action re-encodes whatever   *)
(* is not compliant: when it copies the video stream the source video is   *)
(* H.264 and not HDR; when it copies the audio the source has an audio     *)
(* stream and every audio stream is AAC with 2 channels; an HDR source is  *)
(* never Skip, ContainerRemux or RemuxAudio.  Checked under SpecClassify.  *)
(***************************************************************************)
PlannedCmd ==
    build_ffmpeg_cmd(InPath, OutPath, mode, 22, "medium", info.is_hdr,
                     [given |-> FALSE, audio_streams |-> <<>>], <<>>, <<>>, NoGpuInfo, FALSE)

SourceVideoCompliant == info.video_codec \in {"h264", "H264"} /\ ~info.is_hdr

SourceAudioCompliant ==
    /\ Len(info.audio) >= 1
    /\ \A k \in 1..Len(info.audio) :
         info.audio[k].codec = "aac" /\ info.audio[k].channels = 2

C35_CopiedStreamsCompliant ==
    pc = "classified" =>
        /\ (mode # SKIP /\ CopiesVideo(PlannedCmd)) => SourceVideoCompliant
        /\ (mode # SKIP /\ CopiesAudio(PlannedCmd)) => SourceAudioCompliant
        /\ mode \in {CONTAINER_REMUX, REMUX_AUDIO} => SourceVideoCompliant
        /\ mode \in {CONTAINER_REMUX, TRANCODE_VIDEO} => SourceAudioCompliant
        /\ mode = SKIP => (SourceVideoCompliant /\ SourceAudioCompliant)
        /\ info.is_hdr => mode \in {TRANCODE_VIDEO, TRANCODE_ALL}

C35_Witness ==
    /\ pc = "classified"
    /\ info.is_hdr
    /\ info.video_codec = "h264"
    /\ info.container = "mp4"
    /\ SourceAudioCompliant
    /\ mode = TRANCODE_VIDEO
    /\ CopiesAudio(PlannedCmd)
    /\ ~CopiesVideo(PlannedCmd)

(***************************************************************************)
(* C36.  The decision is a function of the descriptor and its two          *)
(* implementations agree: needs_processing gives Skip exactly when         *)
(* is_direct_play_compatible is true, its result is the same for another   *)
(* out_ext, and MediaInfo.get_required_action and                          *)
(* MediaInfo.is_direct_play_compatible give, on the MediaInfo of the       *)
(* descriptor, the results of needs_processing and                         *)
(* is_direct_play_compatible.  Checked under SpecAgree.                    *)
(***************************************************************************)
C36_ImplementationsAgree ==
    unit.phase = "decided" =>
        /\ (unit.action = SKIP) <=> unit.compatible
        /\ unit.action_ext = unit.action
        /\ unit.media_action = unit.action
        /\ unit.media_compatible = unit.compatible

(***************************************************************************)
(* C37.  Detection takes the first match in the order metal, nvidia,       *)
(* intel: 'videotoolbox' in the listing on the Apple host gives metal;     *)
(* otherwise 'h264_nvenc' gives nvidia; otherwise 'h264_qsv' gives intel;  *)
(* otherwise, and when the tool is missing or exits nonzero, the result    *)
(* is unavailable.  available is true exactly when platform and encoder    *)
(* are set.  Checked under SpecGpu.                                        *)
(***************************************************************************)
Lists(word) == \E n \in unit.listing : n \in
    (CASE word = "videotoolbox" -> {"h264_videotoolbox", "hevc_videotoolbox"}
       [] OTHER -> {word})

ExpectedPlatform ==
    IF unit.tool # "listed" THEN "None"
    ELSE IF Lists("videotoolbox") /\ unit.host = "darwin" THEN "metal"
    ELSE IF Lists("h264_nvenc") THEN "nvidia"
    ELSE IF Lists("h264_qsv") THEN "intel"
    ELSE "None"

C37_FirstMatchDetection ==
    unit.phase = "detected" =>
        /\ unit.gpu_info.platform = ExpectedPlatform
        /\ unit.gpu_info.available <=>
             (unit.gpu_info.platform # "None" /\ unit.gpu_info.encoder # "None")
        /\ unit.gpu_info.platform = "None" <=> unit.gpu_info.encoder = "None"
        /\ unit.gpu_info.platform = "metal" => unit.gpu_info.encoder = "h264_videotoolbox"
        /\ unit.gpu_info.platform = "nvidia" => unit.gpu_info.encoder = "h264_nvenc"
        /\ unit.gpu_info.platform = "intel" => unit.gpu_info.encoder = "h264_qsv"
        /\ unit.gpu_info \in DetectedGpu

C37_Witness ==
    /\ unit.phase = "detected"
    /\ unit.tool = "listed"
    /\ unit.host = "linux"
    /\ unit.listing = {"h264_videotoolbox", "h264_nvenc", "h264_qsv"}
    /\ unit.gpu_info.platform = "nvidia"
    /\ unit.gpu_info.available

(***************************************************************************)
(* C38.  The encoder parameters follow the mapping: on metal the quality   *)
(* is 100 - 2*CRF held within 0..100, with '-realtime 0'; on nvidia the    *)
(* preset goes through the table ultrafast p1, superfast p2, veryfast p3,  *)
(* faster p4, fast p5, medium p6, slow, slower and veryslow p7, and CRF is *)
(* the '-cq' value; on intel the preset is passed unchanged and CRF is     *)
(* the '-global_quality'.  Checked under SpecGpu for every CRF in 0..51.   *)
(***************************************************************************)
Clamped(x) == IF x < 0 THEN 0 ELSE IF x > 100 THEN 100 ELSE x

NvencTable ==
    {<<"ultrafast", "p1">>, <<"superfast", "p2">>, <<"veryfast", "p3">>,
     <<"faster", "p4">>, <<"fast", "p5">>, <<"medium", "p6">>,
     <<"slow", "p7">>, <<"slower", "p7">>, <<"veryslow", "p7">>}

QualityValues == {ToString(q) : q \in 0..100}

C38_EncoderParameterMapping ==
    unit.phase = "params" =>
        /\ unit.gpu_info.platform = "metal" =>
             /\ unit.params = <<"-c:v", "h264_videotoolbox",
                                "-q:v", ToString(Clamped(100 - 2 * unit.crf)),
                                "-realtime", "0">>
             /\ unit.params[4] \in QualityValues
        /\ unit.gpu_info.platform = "nvidia" =>
             /\ Len(unit.params) = 8
             /\ SubSeq(unit.params, 1, 3) = <<"-c:v", "h264_nvenc", "-preset">>
             /\ \A e \in NvencTable : unit.preset = e[1] => unit.params[4] = e[2]
             /\ SubSeq(unit.params, 5, 8) = <<"-cq", ToString(unit.crf), "-rc", "constqp">>
        /\ unit.gpu_info.platform = "intel" =>
             unit.params = <<"-c:v", "h264_qsv", "-preset", unit.preset,
                             "-global_quality", ToString(unit.crf)>>

C38_Witness ==
    /\ unit.phase = "params"
    /\ unit.gpu_info.platform = "metal"
    /\ unit.crf = MaxCrf
    /\ unit.params = <<"-c:v", "h264_videotoolbox", "-q:v", "0", "-realtime", "0">>

(***************************************************************************)
(* C39.  With a known positive duration the percentage after every         *)
(* progress line is elapsed/total*100 held within 0..100: never below 0    *)
(* and never above 100, whatever out_time_us or time= value the line       *)
(* carries; with an unknown duration a progress line does not move the     *)
(* percentage.  Checked under SpecProgress.                                *)
(***************************************************************************)
Percent == unit.mon.progress_percent

C39_PercentWithinRange ==
    unit.phase = "progress" =>
        /\ Percent.den > 0
        /\ Percent.num >= 0
        /\ Percent.num <= 100 * Percent.den
        /\ (unit.parsed /\ unit.mon.duration > 0) =>
             LET raw == unit.mon.current_time * 100
                 total == unit.mon.duration
             IN  IF raw < 0 THEN Percent.num = 0
                 ELSE IF raw > 100 * total THEN Percent.num = 100 * Percent.den
                 ELSE Percent.num * total = raw * Percent.den
        /\ unit.mon.duration = NoDuration => Percent = unit.before.progress_percent

====
